---- MODULE Spec2Model ----
(***************************************************************************)
(* Hospital lighting demo: the ESP receiver (Actuator), the ESP sender     *)
(* (Publisher) and the website, synchronising a room's desired state       *)
(* through Redis keys and streams.                                         *)
(*                                                                         *)
(* One RESP command is one atomic step of the store; the devices' loops    *)
(* are cut at their commands, so other clients interleave between them.    *)
(***************************************************************************)
EXTENDS Integers, Sequences, FiniteSets, TLC

VARIABLES redis, rx, tx, web, net, obs

vars == <<redis, rx, tx, web, net, obs>>

(***************************************************************************)
(* Bounds of the model.                                                    *)
(***************************************************************************)
\* Highest version a writer of the model assigns.
MaxVer == 2
\* Longest command stream at which the Publisher and the website still start a write.
MaxStream == 3
\* Entries other clients append to a command stream.
MaxClientEntries == 2
\* Transport faults (lost link, lost reply) the environment injects per run.
MaxFaults == 1
\* Requests the website serves per run.
MaxWebReqs == 1
\* Highest version an override document of the model carries.
MaxOverrideVer == 1

(***************************************************************************)
(* Program constants.                                                      *)
(***************************************************************************)
PWMRANGE == 1023
kStreamTrimLen == 200
PROVISIONING_BASE_ID == 100
UInt8Max == 255
kBackoffLastSlot == 3

Rooms == {100, 101}
NoRoom == 0                \* the empty roomId string
RxDevice == "rx-mac"       \* WiFi.macAddress() of the receiver
Devices == {RxDevice}

NoId == -1                 \* the empty lastStreamId string
ZeroId == 0                \* the stream id "0-0"

(***************************************************************************)
(* JSON documents.  A document is what deserializeJson yields: whether the *)
(* text parsed, and for each member the code reads the set holding its     *)
(* value ({} when the member is missing).  A Redis string key is the set   *)
(* holding its value ({} when the key does not exist).                     *)
(***************************************************************************)
Doc(m, b, v, r) == [ok |-> TRUE, mode |-> m, brightness |-> b, ver |-> v, room |-> r]

GarbageDoc == [ok |-> FALSE, mode |-> {}, brightness |-> {}, ver |-> {}, room |-> {}]

\* contracts::Desired and its default member initialisers.
Desired(m, b, v) == [mode |-> m, brightness |-> b, ver |-> v]

DefaultDesired == Desired("off", 0, 0)

\* The literal the provisioning script and pullSnapshot use.
DefaultOffDoc == Doc({"off"}, {0}, {0}, {})

TheOne(S) == CHOOSE x \in S : TRUE

Max(a, b) == IF a >= b THEN a ELSE b

\* doc["brightness"] | fallback: the member's value when it is an integer a
\* uint8_t can hold, else the fallback.
BrightnessOr(member, fallback) ==
  IF member # {} /\ TheOne(member) >= 0 /\ TheOne(member) <= UInt8Max
  THEN TheOne(member) ELSE fallback

\* doc["ver"] | fallback: the member's value when it is an integer a uint32_t can
\* hold, else the fallback.  The model's versions stay far below 2^32 - 1.
VerOr(member, fallback) ==
  IF member # {} /\ TheOne(member) >= 0 THEN TheOne(member) ELSE fallback

copyModeOk(member) == member = {"on"} \/ member = {"off"}

\* A clamp that lets every value through.
clampBrightnessOff(b) == b

clampBrightness(b) == IF b > 100 THEN 100 ELSE b

\* decodeDesiredJson / contracts::decodeDesired, overlaid onto `prior`.
decodeDesired(doc, prior) ==
  IF ~doc.ok \/ ~copyModeOk(doc.mode)
  THEN [ok |-> FALSE, d |-> prior]
  ELSE [ok |-> TRUE,
        d  |-> Desired(TheOne(doc.mode),
                       clampBrightness(BrightnessOr(doc.brightness, prior.brightness)),
                       VerOr(doc.ver, prior.ver))]

\* An encoder that leaves the version out.
encodeDesiredNoVer(d, roomId) ==
  Doc({d.mode}, {d.brightness}, {}, IF roomId # NoRoom THEN {roomId} ELSE {})

encodeDesired(d, roomId) ==
  Doc({d.mode}, {d.brightness}, {d.ver}, IF roomId # NoRoom THEN {roomId} ELSE {})

sameDesired(lhs, rhs) ==
  lhs.brightness = rhs.brightness /\ lhs.ver = rhs.ver /\ lhs.mode = rhs.mode

(***************************************************************************)
(* The store.  A stream is a sequence of entries [id, names, v]: the       *)
(* entry's id, its field names in order, and the value of its field p.     *)
(***************************************************************************)
Entry(id, names, v) == [id |-> id, names |-> names, v |-> v]

LastId(stream) == IF stream = <<>> THEN ZeroId ELSE stream[Len(stream)].id

\* XADD stream * field value
Xadd(stream, names, v) == Append(stream, Entry(LastId(stream) + 1, names, v))

\* XTRIM stream MAXLEN ~ n: never trims below n entries.
Xtrim(stream, n) ==
  IF Len(stream) > n THEN SubSeq(stream, Len(stream) - n + 1, Len(stream)) ELSE stream

\* XREVRANGE stream + - COUNT 1: the id of the newest entry, NoId when empty.
streamTailId(stream) == IF stream = <<>> THEN NoId ELSE stream[Len(stream)].id

\* XREAD COUNT 1 STREAMS stream since: the oldest entry after `since`.
EntriesAfter(stream, since) == {i \in 1..Len(stream) : stream[i].id > since}

HasEntryAfter(stream, since) == EntriesAfter(stream, since) # {}

FirstAfter(stream, since) ==
  stream[CHOOSE i \in EntriesAfter(stream, since) :
           \A j \in EntriesAfter(stream, since) : i <= j]

\* readXreadPayload: walks the entry's fields and delivers at the first one named p.
HasFieldP(entry) == \E i \in 1..Len(entry.names) : entry.names[i] = "p"

\* readXreadPayload returns at the first field named p: the fields after it are
\* left in the connection.
LeavesFieldsUnread(entry) ==
  \E i \in 1..Len(entry.names) :
    /\ entry.names[i] = "p"
    /\ \A j \in 1..(i - 1) : entry.names[j] # "p"
    /\ i < Len(entry.names)

\* A script that takes INCR's result whatever the base.
ProvisionRidUnclamped(store, dev, base) ==
  IF store.deviceRoom[dev] # {} THEN TheOne(store.deviceRoom[dev])
  ELSE store.next_id + 1

\* A script that hands out the base to every new device.
ProvisionRidFromBase(store, dev, base) ==
  IF store.deviceRoom[dev] # {} THEN TheOne(store.deviceRoom[dev])
  ELSE base

\* kProvisionScript, run atomically by EVAL.
ProvisionRid(store, dev, base) ==
  IF store.deviceRoom[dev] # {} THEN TheOne(store.deviceRoom[dev])
  ELSE IF store.next_id + 1 < base THEN base ELSE store.next_id + 1

\* A script that writes the default snapshot on every call.
ProvisionScriptReseeds(store, dev, base) ==
  LET rid == ProvisionRid(store, dev, base)
  IN  IF store.deviceRoom[dev] # {} THEN [store EXCEPT !.desired[rid] = {DefaultOffDoc}]
      ELSE [store EXCEPT !.next_id = rid,
                         !.deviceRoom[dev] = {rid},
                         !.roomDevice[rid] = {dev},
                         !.desired[rid] = {DefaultOffDoc}]

ProvisionScript(store, dev, base) ==
  IF store.deviceRoom[dev] # {} THEN store
  ELSE LET rid == ProvisionRid(store, dev, base)
       IN  [store EXCEPT !.next_id = rid,
                         !.deviceRoom[dev] = {rid},
                         !.roomDevice[rid] = {dev},
                         !.desired[rid] = IF @ = {} THEN {DefaultOffDoc} ELSE @]

InitRedis ==
  [desired    |-> [r \in Rooms |-> {}],
   reported   |-> [r \in Rooms |-> {}],
   cmd        |-> [r \in Rooms |-> <<>>],
   state      |-> [r \in Rooms |-> {}],
   override   |-> [r \in Rooms |-> {}],
   cfg        |-> [r \in Rooms |-> {}],
   deviceRoom |-> [d \in Devices |-> {}],
   roomDevice |-> [r \in Rooms |-> {}],
   next_id    |-> 0]

(***************************************************************************)
(* The environment's transport faults: a link that closes, a reply that    *)
(* never arrives.  net.faults counts the ones injected so far.             *)
(***************************************************************************)
InitNet == [faults |-> 0]

CanFault == net.faults < MaxFaults

Fault == [net EXCEPT !.faults = @ + 1]

(***************************************************************************)
(* Observation of the run (history the properties speak about; the program *)
(* does not read it).                                                      *)
(*   prevApplied   lastAppliedVer just before the latest apply             *)
(*   prevMax       highest version applied before the latest apply         *)
(*   prevEpochMax  the same, counted since the latest resetRoomState       *)
(*   everMax, epochMax   the running maxima (-1: nothing applied)          *)
(*   snapFresh     a snapshot GET succeeded on the current connection      *)
(*   cursorFresh   lastStreamId was obtained on the current connection     *)
(*   failed        a dropRedis happened since the latest connect           *)
(*   pubMax        highest version the Publisher has SET, per room         *)
(*   pubVer, pubPrevMax   the version of its latest SET, and pubMax just   *)
(*                 before it (-1 once the next step has been taken)        *)
(*   toggled       override was toggled since the latest publish decision  *)
(*   elapsed       the publish interval had elapsed when the pass began    *)
(*   pass          how the latest publish pass decided: "skip", "publish"  *)
(*   passSame, passForce, passToggled, passElapsed, passOverride           *)
(*                 what that decision met                                  *)
(*   passSched     what evaluateScheduleBrightness returned to that pass   *)
(*                 (-1: it was not called)                                 *)
(*   passBrightness  the brightness of the candidate of that pass          *)
(*   call          the latest EVAL of the provisioning script: its device  *)
(*                 and base, the room id it returned, the room id mapped   *)
(*                 to the device before it (NoRoom: none), what it found   *)
(*                 under rooms:next_id and room:<rid>:desired, and whether *)
(*                 it changed any key                                      *)
(*   codec         the latest call of a decoder, encoder or output         *)
(*                 function: which one, the document and the target state  *)
(*                 it was given, whether it succeeded, the target state    *)
(*                 afterwards, the state that was encoded (round trips),   *)
(*                 and the duty written to each LED channel (applyPwm)     *)
(*   resp          the latest RESP exchange looked at on its own: the      *)
(*                 function, the bytes it was given or produced, and what  *)
(*                 it returned; for an XREAD also the Actuator before it   *)
(*                 and, when no entry was delivered, after pumpStream's    *)
(*                 reaction (each as the set holding the record)           *)
(*   backoff       a device's redisBackoff looked at on its own against    *)
(*                 millis(): the clock, nextMs and slot, whether the link  *)
(*                 is up, the number of failed attempts in a row and the   *)
(*                 time of the latest one (-1: none), the time of the      *)
(*                 latest dropRedis outside ensureRedis that no attempt    *)
(*                 has followed yet (-1: none), the delay the latest       *)
(*                 schedule added to the clock, and what the latest        *)
(*                 ensureRedis did                                         *)
(*   bump          the latest version step of publishDesired looked at on  *)
(*                 its own: the version the candidate came with, localVer, *)
(*                 and the version that goes out (32-bit values)           *)
(*   delivered     the id of the entry the latest step of pumpStream was    *)
(*                 handed by xreadLatest (NoId: none)                      *)
(*   epochDelivered  the greatest id handed over since the connection was  *)
(*                 made                                                    *)
(***************************************************************************)
NoCall ==
  [dev |-> "", base |-> 0, rid |-> NoRoom, prior |-> NoRoom, counter |-> 0, found |-> {},
   changed |-> FALSE]

NoCodec ==
  [fn |-> "none", payload |-> GarbageDoc, before |-> DefaultDesired, ok |-> FALSE,
   out |-> DefaultDesired, given |-> DefaultDesired, writes |-> <<>>]

NoResp ==
  [fn |-> "none", reply |-> <<>>, ok |-> FALSE, out |-> <<>>, isNull |-> FALSE,
   wasNull |-> FALSE, err |-> "", rest |-> <<>>, args |-> <<>>, sent |-> <<>>,
   website |-> <<>>, id |-> <<>>, up |-> TRUE, rxBefore |-> {}, rxAfter |-> {}]

\* A uint32_t as its two 16-bit halves.
U32(hi, lo) == [hi |-> hi, lo |-> lo]

NoBump == [called |-> FALSE, desired |-> U32(0, 0), localVer |-> U32(0, 0), ver |-> U32(0, 0)]

InitBackoff ==
  [now |-> 0, nextMs |-> 0, slot |-> 0, up |-> FALSE, fails |-> 0, failedAt |-> -1,
   droppedAt |-> -1, delay |-> 0, did |-> "none"]

InitObs ==
  [prevApplied |-> -1, prevMax |-> -1, prevEpochMax |-> -1,
   everMax |-> -1, epochMax |-> -1,
   snapFresh |-> FALSE, cursorFresh |-> FALSE, failed |-> FALSE,
   pubMax |-> [r \in Rooms |-> -1], pubPrevMax |-> -1, pubVer |-> -1,
   toggled |-> FALSE, elapsed |-> FALSE,
   pass |-> "none", passSame |-> FALSE, passForce |-> FALSE,
   passToggled |-> FALSE, passElapsed |-> FALSE, passOverride |-> FALSE,
   passSched |-> -1, passBrightness |-> -1,
   call |-> NoCall, codec |-> NoCodec, resp |-> NoResp, backoff |-> InitBackoff,
   bump |-> NoBump,
   delivered |-> NoId, epochDelivered |-> NoId]

ObsApply(o, prevVer, ver) ==
  [o EXCEPT !.prevApplied = prevVer, !.prevMax = o.everMax, !.prevEpochMax = o.epochMax,
            !.everMax = Max(@, ver), !.epochMax = Max(@, ver)]

ObsClearApply(o) ==
  [o EXCEPT !.prevApplied = -1, !.prevMax = -1, !.prevEpochMax = -1, !.delivered = NoId]

ObsReset(o) == [ObsClearApply(o) EXCEPT !.epochMax = -1, !.epochDelivered = NoId]

\* pumpStream was handed an entry by xreadLatest.
ObsDeliver(o, id) ==
  [o EXCEPT !.cursorFresh = TRUE, !.delivered = id, !.epochDelivered = Max(@, id)]

ObsDrop(o) == [ObsReset(o) EXCEPT !.failed = TRUE]

ObsConnect(o) ==
  [ObsReset(o) EXCEPT !.snapFresh = FALSE, !.cursorFresh = FALSE, !.failed = FALSE]

(***************************************************************************)
(* The Actuator (esp-receiver).  rx.pc is the command its loop() issues    *)
(* next; rx.unread says that the connection still carries a reply, or the  *)
(* rest of one, that no read has consumed; rx.sentCursor is the cursor of  *)
(* an XREAD whose reply is among what is unread (NoId: none).              *)
(***************************************************************************)
InitRx ==
  [pc |-> "ensure", conn |-> FALSE, roomId |-> NoRoom,
   lastDesired |-> DefaultDesired, hasDesired |-> FALSE, lastAppliedVer |-> 0,
   lastStreamId |-> NoId, streamCursorValid |-> FALSE,
   duty |-> 0, jsonScratch |-> DefaultOffDoc, slot |-> 0, armed |-> FALSE,
   unread |-> FALSE, sentCursor |-> NoId]

\* A reset that forgets the snapshot and keeps the stream cursor.
resetRoomStateKeepsCursor(s, dropRoomId) ==
  [s EXCEPT !.hasDesired = FALSE, !.lastAppliedVer = 0,
            !.roomId = IF dropRoomId THEN NoRoom ELSE @]

resetRoomState(s, dropRoomId) ==
  [s EXCEPT !.hasDesired = FALSE, !.lastAppliedVer = 0,
            !.streamCursorValid = FALSE, !.lastStreamId = NoId,
            !.roomId = IF dropRoomId THEN NoRoom ELSE @]

\* A teardown that leaves loop() where it was instead of back at ensureRedis.
dropRedisInPlace(s) == [resetRoomState(s, TRUE) EXCEPT !.conn = FALSE, !.unread = FALSE, !.sentCursor = NoId]

\* redis.stop() and resetRoomState(); the rest of the loop() pass finds no room.
dropRedis(s) ==
  [resetRoomState(s, TRUE) EXCEPT !.conn = FALSE, !.unread = FALSE, !.sentCursor = NoId, !.pc = "ensure"]

\* Backoff::schedule and Backoff::reset.
BackoffSchedule(s) ==
  [s EXCEPT !.slot = IF @ < kBackoffLastSlot THEN @ + 1 ELSE @, !.armed = TRUE]

BackoffReset(s) == [s EXCEPT !.slot = 0, !.armed = FALSE]

\* A duty that follows the brightness whatever the mode.
applyPwmAnyMode(d) == (d.brightness * PWMRANGE) \div 100

\* map(brightness, 0, 100, 0, PWMRANGE) for mode on, else 0.
applyPwm(d) ==
  IF d.mode = "on" /\ d.brightness > 0 THEN (d.brightness * PWMRANGE) \div 100 ELSE 0

percentToDuty(percent) == (percent * PWMRANGE) \div 100

\* kLedChannels: maxDuty of the red, green and blue channel as config.h mixes them.
kLedChannels == <<percentToDuty(100), percentToDuty(99), percentToDuty(55)>>

kLedActiveLow == FALSE

applyPolarity(duty, activeLow) == IF activeLow THEN PWMRANGE - duty ELSE duty

\* applyPwm's loop: what writeLedDuty hands to analogWrite for each channel.
ChannelWrites(d) ==
  [i \in 1..Len(kLedChannels) |->
     applyPolarity((kLedChannels[i] * applyPwm(d)) \div PWMRANGE, kLedActiveLow)]

\* The tail shared by pullSnapshot and handlePayload.
Applied(s, d) ==
  [s EXCEPT !.duty = applyPwm(d), !.lastDesired = d, !.lastAppliedVer = d.ver,
            !.hasDesired = TRUE, !.jsonScratch = encodeDesired(d, s.roomId)]

\* The version test with a tie let through.
StaleVerTie(ver, lastAppliedVer) == ver < lastAppliedVer

\* handlePayload: if (desired.ver <= lastAppliedVer) return;
StaleVer(ver, lastAppliedVer) == ver <= lastAppliedVer

\* loop() pulling the snapshot on every pass, hasDesired or not.
AfterEnsureAlwaysPull(s) ==
  IF s.roomId = NoRoom THEN "provision" ELSE "pull"

\* loop(): which of provisionRoom, pullSnapshot and the rest runs after ensureRedis.
AfterEnsure(s) ==
  IF s.roomId = NoRoom THEN "provision"
  ELSE IF ~s.hasDesired THEN "pull"
  ELSE "heartbeat"

\* pumpStream reading the stream without priming an invalid cursor.
PumpEntryNoPrime(s) ==
  IF s.roomId = NoRoom \/ ~s.hasDesired THEN "ensure" ELSE "xread"

\* pumpStream: its early return, and whether the cursor must be primed first.
PumpEntry(s) ==
  IF s.roomId = NoRoom \/ ~s.hasDesired THEN "ensure"
  ELSE IF ~s.streamCursorValid THEN "prime"
  ELSE "xread"

\* A connect that leaves the room state as it was.
ConnectedKeepState(s) == [BackoffReset(s) EXCEPT !.conn = TRUE, !.unread = FALSE, !.sentCursor = NoId]

\* ensureRedis on a successful connect, AUTH (no password configured) and PING.
Connected(s) ==
  resetRoomState([BackoffReset(s) EXCEPT !.conn = TRUE, !.unread = FALSE, !.sentCursor = NoId], TRUE)

RxEnsure ==
  /\ rx.pc = "ensure"
  /\ UNCHANGED <<redis, tx, web, net>>
  /\ IF rx.conn
     THEN /\ rx' = [BackoffReset(rx) EXCEPT !.pc = AfterEnsure(rx)]
          /\ obs' = ObsClearApply(obs)
     ELSE \E outcome \in {"tcp_failed", "ping_failed", "connected"} :
            CASE outcome = "tcp_failed" ->
                   /\ rx' = [BackoffSchedule(rx) EXCEPT !.unread = FALSE, !.sentCursor = NoId]
                   /\ obs' = ObsClearApply(obs)
              [] outcome = "ping_failed" ->
                   /\ rx' = dropRedis(BackoffSchedule(rx))
                   /\ obs' = ObsDrop(obs)
              [] outcome = "connected" ->
                   /\ rx' = [Connected(rx) EXCEPT !.pc = AfterEnsure(Connected(rx))]
                   /\ obs' = ObsConnect(obs)

RxProvision ==
  /\ rx.pc = "provision"
  /\ UNCHANGED <<tx, web>>
  /\ IF ~rx.conn
     THEN /\ rx' = [rx EXCEPT !.pc = "ensure"]
          /\ UNCHANGED <<redis, net, obs>>
     ELSE /\ ProvisionRid(redis, RxDevice, PROVISIONING_BASE_ID) \in Rooms
          /\ redis' = ProvisionScript(redis, RxDevice, PROVISIONING_BASE_ID)
          /\ \/ /\ LET rid == ProvisionRid(redis, RxDevice, PROVISIONING_BASE_ID)
                       s   == IF rid # rx.roomId
                              THEN resetRoomState([rx EXCEPT !.roomId = rid], FALSE)
                              ELSE rx
                   IN  rx' = [s EXCEPT !.pc = IF s.hasDesired THEN "heartbeat" ELSE "pull"]
                /\ obs' = ObsReset(obs)
                /\ UNCHANGED net
             \/ /\ CanFault
                /\ net' = Fault
                /\ rx' = dropRedis(rx)
                /\ obs' = ObsDrop(obs)

\* pullSnapshot up to its call of recordState.
RxPull ==
  /\ rx.pc = "pull"
  /\ UNCHANGED <<redis, tx, web>>
  /\ IF ~rx.conn
     THEN /\ rx' = dropRedis(rx)
          /\ obs' = ObsDrop(obs)
          /\ UNCHANGED net
     ELSE \/ /\ LET stored == redis.desired[rx.roomId]
                    doc == IF stored = {} THEN DefaultOffDoc ELSE TheOne(stored)
                    dec == decodeDesired(doc, DefaultDesired)
                    d   == IF dec.ok THEN dec.d ELSE DefaultDesired
                IN  /\ rx' = [Applied(rx, d) EXCEPT !.pc = "record_snap"]
                    /\ obs' = [ObsApply(obs, rx.lastAppliedVer, d.ver) EXCEPT !.snapFresh = TRUE]
             /\ UNCHANGED net
          \/ /\ CanFault
             /\ net' = Fault
             /\ rx' = dropRedis(rx)
             /\ obs' = ObsDrop(obs)

\* recordState: SET room:<id>:reported, XADD state:room:<id>, XTRIM.  A failed SET
\* or XADD drops the connection; XTRIM's result is ignored, so when its reply does
\* not arrive in time recordState returns true and the reply stays unread.  A SET
\* sent while something is unread reads that instead of its own reply and fails.
\* redis.state keeps the stream's newest payload.
RecordOutcomes == {"ok", "set_lost", "xadd_unsent", "xadd_lost", "xtrim_lost"}

\* A recordState that appends to the state stream and skips the reported key.
RecordedStreamOnly(store, s, outcome) ==
  [store EXCEPT !.state[s.roomId] = IF outcome \in {"ok", "xadd_lost", "xtrim_lost"}
                                    THEN {s.jsonScratch} ELSE @]

Recorded(store, s, outcome) ==
  [store EXCEPT !.reported[s.roomId] = {s.jsonScratch},
                !.state[s.roomId] = IF outcome \in {"ok", "xadd_lost", "xtrim_lost"}
                                    THEN {s.jsonScratch} ELSE @]

RxRecord(after) ==
  /\ UNCHANGED <<tx, web>>
  /\ IF ~rx.conn
     THEN /\ rx' = dropRedis(rx)
          /\ obs' = ObsDrop(obs)
          /\ UNCHANGED <<redis, net>>
     ELSE IF rx.unread
     THEN /\ redis' = Recorded(redis, rx, "set_lost")
          /\ rx' = dropRedis(rx)
          /\ obs' = ObsDrop(obs)
          /\ UNCHANGED net
     ELSE \E outcome \in RecordOutcomes :
            /\ redis' = Recorded(redis, rx, outcome)
            /\ CASE outcome = "ok" ->
                      /\ rx' = after
                      /\ obs' = ObsClearApply(obs)
                      /\ UNCHANGED net
                 [] outcome = "xtrim_lost" ->
                      /\ CanFault
                      /\ net' = Fault
                      /\ rx' = [after EXCEPT !.unread = TRUE]
                      /\ obs' = ObsClearApply(obs)
                 [] OTHER ->
                      /\ CanFault
                      /\ net' = Fault
                      /\ rx' = dropRedis(rx)
                      /\ obs' = ObsDrop(obs)

\* pullSnapshot after recordState: the cursor is invalidated; loop() goes on.
RxRecordSnapshot ==
  /\ rx.pc = "record_snap"
  /\ RxRecord([rx EXCEPT !.streamCursorValid = FALSE, !.lastStreamId = NoId,
                         !.pc = "heartbeat"])

\* handlePayload's recordState; loop() then ends its pass.
RxRecordCommand ==
  /\ rx.pc = "record_cmd"
  /\ RxRecord([rx EXCEPT !.pc = "ensure"])

\* maintainHeartbeat, announceRoom, maybeRefreshQuietHours: a SET or GET, sent when
\* due, that either succeeds or drops the link; both return early without a room
\* or a connection.  Sent while something is unread, it reads that and fails.
RxHeartbeat ==
  /\ rx.pc = "heartbeat"
  /\ UNCHANGED <<redis, tx, web>>
  /\ \/ /\ rx' = [rx EXCEPT !.pc = PumpEntry(rx)]
        /\ obs' = ObsClearApply(obs)
        /\ UNCHANGED net
     \/ /\ rx.conn /\ rx.roomId # NoRoom
        /\ rx.unread
        /\ rx' = dropRedis(rx)
        /\ obs' = ObsDrop(obs)
        /\ UNCHANGED net
     \/ /\ rx.conn /\ rx.roomId # NoRoom
        /\ CanFault
        /\ net' = Fault
        /\ rx' = dropRedis(rx)
        /\ obs' = ObsDrop(obs)

\* primeStreamCursor, and pumpStream's dropRedis when it fails: on a transport
\* error, or when readArrayLen meets an unread reply of another command.
RxPrime ==
  /\ rx.pc = "prime"
  /\ UNCHANGED <<redis, tx, web>>
  /\ IF ~rx.conn \/ rx.unread
     THEN /\ rx' = dropRedis(rx)
          /\ obs' = ObsDrop(obs)
          /\ UNCHANGED net
     ELSE \/ /\ LET tailId == streamTailId(redis.cmd[rx.roomId])
                IN  rx' = [rx EXCEPT !.lastStreamId = IF tailId # NoId THEN tailId ELSE ZeroId,
                                     !.streamCursorValid = TRUE, !.pc = "xread"]
             /\ obs' = [obs EXCEPT !.cursorFresh = TRUE]
             /\ UNCHANGED net
          \/ /\ CanFault
             /\ net' = Fault
             /\ rx' = dropRedis(rx)
             /\ obs' = ObsDrop(obs)

\* handlePayload decoding into lastDesired itself instead of into a copy.
handlePayloadInPlace(s, payload) ==
  LET dec == decodeDesired(payload, s.lastDesired)
  IN  IF ~dec.ok \/ StaleVer(dec.d.ver, s.lastAppliedVer)
      THEN [s EXCEPT !.pc = "ensure", !.lastDesired = dec.d]
      ELSE [Applied(s, dec.d) EXCEPT !.pc = "record_cmd"]

\* handlePayload up to its call of recordState.
handlePayload(s, payload) ==
  LET dec == decodeDesired(payload, s.lastDesired)
  IN  IF ~dec.ok \/ StaleVer(dec.d.ver, s.lastAppliedVer)
      THEN [s EXCEPT !.pc = "ensure"]
      ELSE [Applied(s, dec.d) EXCEPT !.pc = "record_cmd"]

\* pumpStream's XREAD: a null reply, an entry without a field p, a delivered entry,
\* or a transport error.  With something unread, readXreadPayload reads that: it
\* returns false without an error on anything that is not an array, or it reads
\* the reply of the XREAD sent before this one (rx.sentCursor holds the cursor that
\* one was sent with); either way this XREAD's own reply stays unread in turn.
XreadCursor(s) == IF s.lastStreamId # NoId THEN s.lastStreamId ELSE ZeroId

\* The cursor of the XREAD whose reply readXreadPayload reads.
ReplyCursor(s) == IF s.unread /\ s.sentCursor # NoId THEN s.sentCursor ELSE XreadCursor(s)

RxXread ==
  /\ rx.pc = "xread"
  /\ UNCHANGED <<redis, tx, web>>
  /\ IF ~rx.conn
     THEN /\ rx' = dropRedis(rx)
          /\ obs' = ObsDrop(obs)
          /\ UNCHANGED net
     ELSE \/ /\ ~rx.unread \/ rx.sentCursor # NoId
             /\ UNCHANGED net
             /\ LET stream == redis.cmd[rx.roomId]
                    cursor == ReplyCursor(rx)
                    sent   == [rx EXCEPT !.sentCursor = IF rx.unread THEN XreadCursor(rx)
                                                        ELSE NoId]
                IN  IF ~HasEntryAfter(stream, cursor)
                    THEN /\ rx' = [sent EXCEPT !.pc = "ensure"]
                         /\ UNCHANGED obs
                    ELSE LET e == FirstAfter(stream, cursor)
                         IN  IF ~HasFieldP(e)
                             THEN /\ rx' = [sent EXCEPT !.pc = "ensure"]
                                  /\ UNCHANGED obs
                             ELSE LET s == handlePayload(
                                             [sent EXCEPT !.lastStreamId = e.id,
                                                          !.unread = @ \/ LeavesFieldsUnread(e)],
                                             e.v)
                                  IN  /\ rx' = s
                                      /\ obs' = IF s.pc = "record_cmd"
                                                THEN ObsDeliver(ObsApply(obs, rx.lastAppliedVer,
                                                                         s.lastAppliedVer), e.id)
                                                ELSE ObsDeliver(obs, e.id)
          \/ /\ rx.unread
             /\ rx' = [rx EXCEPT !.pc = "ensure",
                                 !.sentCursor = IF @ = NoId THEN XreadCursor(rx) ELSE @]
             /\ UNCHANGED <<net, obs>>
          \/ /\ CanFault
             /\ net' = Fault
             /\ rx' = dropRedis(rx)
             /\ obs' = ObsDrop(obs)

\* The receiver's TCP connection closes under it.
RxLinkDown ==
  /\ rx.conn
  /\ CanFault
  /\ net' = Fault
  /\ rx' = [rx EXCEPT !.conn = FALSE]
  /\ UNCHANGED <<redis, tx, web, obs>>

RxStep ==
  \/ RxEnsure
  \/ RxProvision
  \/ RxPull
  \/ RxRecordSnapshot
  \/ RxHeartbeat
  \/ RxPrime
  \/ RxXread
  \/ RxRecordCommand

(***************************************************************************)
(* The Publisher (esp-sender).  Two builds of it are in the tree:          *)
(* "part_003" keeps a desiredForcePublish flag and seeds from the desired  *)
(* snapshot falling back to the reported one; "esp-sender" does neither    *)
(* and resets its state on every room announcement.  tx.pc is the command  *)
(* its loop() issues next.                                                 *)
(***************************************************************************)
Builds == {"part_003", "esp-sender"}

\* Brightness levels the knob and the schedule take in the model.
Levels == {0, 60}

\* ROOM_ID_OVERRIDE, and the rooms a ROOM:<id> console line names.
RoomIdOverride == PROVISIONING_BASE_ID

ConsoleRooms == {PROVISIONING_BASE_ID}

NoMirror == [known |-> FALSE, version |-> 0, enabled |-> FALSE]

InitTx ==
  {[build |-> b, pc |-> "loop", conn |-> FALSE, roomId |-> NoRoom,
    needsVersionSeed |-> TRUE, localVer |-> 0, lastDesired |-> DefaultDesired,
    overridePublishHint |-> FALSE, desiredForcePublish |-> FALSE,
    overrideEnabled |-> FALSE, overrideBrightness |-> k,
    overrideMirror |-> NoMirror, overrideDirty |-> FALSE,
    scheduleLoaded |-> FALSE, desired |-> DefaultDesired] : b \in Builds, k \in Levels}

resetState(s) ==
  [s EXCEPT !.localVer = 0, !.needsVersionSeed = TRUE, !.scheduleLoaded = FALSE,
            !.overrideMirror = NoMirror, !.overrideDirty = FALSE]

TxDropRedis(s) ==
  [resetState(s) EXCEPT !.conn = FALSE, !.pc = "loop", !.desired = DefaultDesired]

ensureRoomFromOverride(s) ==
  IF s.roomId = NoRoom THEN resetState([s EXCEPT !.roomId = RoomIdOverride]) ELSE s

\* handleRoomAnnouncement: esp-sender resets on every announcement, part_003 only
\* when the room changes.
ResetsOnEveryAnnouncement(build) == build = "esp-sender"

handleRoomAnnouncement(s, rid) ==
  IF rid # s.roomId THEN resetState([s EXCEPT !.roomId = rid])
  ELSE IF ResetsOnEveryAnnouncement(s.build) THEN resetState(s)
  ELSE s

HasForceFlag(build) == build = "part_003"

setOverrideEnabled(s, enabled, syncToRedis) ==
  IF s.overrideEnabled = enabled THEN s
  ELSE [s EXCEPT !.overrideEnabled = enabled,
                 !.desiredForcePublish = IF HasForceFlag(s.build) THEN TRUE ELSE @,
                 !.overrideDirty = IF syncToRedis THEN TRUE ELSE @,
                 !.overridePublishHint = TRUE]

ObsToggle(o, before, after) ==
  IF before.overrideEnabled # after.overrideEnabled THEN [o EXCEPT !.toggled = TRUE] ELSE o

ObsClearPass(o) ==
  [o EXCEPT !.pubVer = -1, !.pubPrevMax = -1, !.elapsed = FALSE,
            !.pass = "none", !.passSame = FALSE, !.passForce = FALSE,
            !.passToggled = FALSE, !.passElapsed = FALSE, !.passOverride = FALSE,
            !.passSched = -1, !.passBrightness = -1]

\* Console and front-panel events, picked up by pumpConsole and pumpOverrideInputs
\* at the top of loop().
TxAnnounce ==
  /\ tx.pc = "loop"
  /\ \E rid \in ConsoleRooms :
       /\ handleRoomAnnouncement(tx, rid) # tx
       /\ tx' = handleRoomAnnouncement(tx, rid)
  /\ UNCHANGED <<redis, rx, web, net, obs>>

\* The version of the document stored under room:<id>:override, 0 when absent.
OverrideVer(store, r) ==
  IF store.override[r] = {} THEN 0 ELSE TheOne(store.override[r]).ver

\* pollOverrideButton on a debounced press: toggleOverride.
TxButton ==
  /\ tx.pc = "loop"
  /\ tx.overrideMirror.version < MaxOverrideVer
  /\ \A r \in Rooms : OverrideVer(redis, r) < MaxOverrideVer
  /\ tx' = setOverrideEnabled(tx, ~tx.overrideEnabled, TRUE)
  /\ obs' = ObsToggle(obs, tx, tx')
  /\ UNCHANGED <<redis, rx, web, net>>

\* pollOverrideAnalog when the knob has moved to another level.
TxKnob ==
  /\ tx.pc = "loop"
  /\ \E percent \in Levels :
       /\ percent # tx.overrideBrightness
       /\ tx' = [tx EXCEPT !.overrideBrightness = percent,
                           !.overridePublishHint = IF tx.overrideEnabled THEN TRUE ELSE @]
  /\ UNCHANGED <<redis, rx, web, net, obs>>

\* The sender's TCP connection closes under it.
TxLinkDown ==
  /\ tx.conn
  /\ CanFault
  /\ net' = Fault
  /\ tx' = [tx EXCEPT !.conn = FALSE]
  /\ UNCHANGED <<redis, rx, web, obs>>

\* loop() up to ensureRedis.
TxLoop ==
  /\ tx.pc = "loop"
  /\ UNCHANGED <<redis, rx, web, net>>
  /\ obs' = ObsClearPass(obs)
  /\ LET s == ensureRoomFromOverride(tx)
     IN  IF s.conn
         THEN tx' = [s EXCEPT !.pc = "cfg"]
         ELSE \E outcome \in {"ping_failed", "connected"} :
                tx' = IF outcome = "connected"
                      THEN [s EXCEPT !.conn = TRUE, !.needsVersionSeed = TRUE, !.pc = "cfg"]
                      ELSE TxDropRedis(s)

\* maybeRefreshSchedule and fetchScheduleConfig: GET room:<id>:cfg when due.
TxCfg ==
  /\ tx.pc = "cfg"
  /\ UNCHANGED <<redis, rx, web, obs>>
  /\ IF tx.roomId = NoRoom \/ ~tx.conn
     THEN /\ tx' = [tx EXCEPT !.pc = "override_get"]
          /\ UNCHANGED net
     ELSE \/ /\ tx.scheduleLoaded
             /\ tx' = [tx EXCEPT !.pc = "override_get"]
             /\ UNCHANGED net
          \/ /\ \E loaded \in BOOLEAN :
                  tx' = [tx EXCEPT !.scheduleLoaded = IF loaded THEN TRUE ELSE @,
                                   !.pc = "override_get"]
             /\ UNCHANGED net
          \/ /\ CanFault
             /\ net' = Fault
             /\ tx' = TxDropRedis(tx)

\* The command after maybeFetchOverrideState.
AfterOverrideGet(s) ==
  IF s.overrideDirty /\ s.roomId # NoRoom /\ s.conn THEN "override_set" ELSE "pass"

\* maybeFetchOverrideState: GET room:<id>:override when due, adopt a newer document.
TxOverrideGet ==
  /\ tx.pc = "override_get"
  /\ UNCHANGED <<redis, rx, web>>
  /\ IF tx.roomId = NoRoom \/ ~tx.conn
     THEN /\ tx' = [tx EXCEPT !.pc = AfterOverrideGet(tx)]
          /\ UNCHANGED <<net, obs>>
     ELSE \/ /\ tx' = [tx EXCEPT !.pc = AfterOverrideGet(tx)]
             /\ UNCHANGED <<net, obs>>
          \/ /\ LET stored == redis.override[tx.roomId]
                    doc == TheOne(stored)
                    s == IF stored # {} /\ (~tx.overrideMirror.known
                                             \/ doc.ver > tx.overrideMirror.version)
                         THEN setOverrideEnabled(
                                [tx EXCEPT !.overrideMirror =
                                   [known |-> TRUE, version |-> doc.ver, enabled |-> doc.enabled]],
                                doc.enabled, FALSE)
                         ELSE tx
                IN  /\ tx' = [s EXCEPT !.pc = AfterOverrideGet(s)]
                    /\ obs' = ObsToggle(obs, tx, s)
             /\ UNCHANGED net
          \/ /\ CanFault
             /\ net' = Fault
             /\ tx' = TxDropRedis(tx)
             /\ UNCHANGED obs

OverrideDoc(enabled, ver) == [enabled |-> enabled, ver |-> ver]

\* maybePublishOverrideState: SET room:<id>:override.
TxOverrideSet ==
  /\ tx.pc = "override_set"
  /\ UNCHANGED <<rx, web, obs>>
  /\ IF ~tx.conn
     THEN /\ tx' = TxDropRedis(tx)
          /\ UNCHANGED <<redis, net>>
     ELSE LET newVer == IF tx.overrideMirror.known THEN tx.overrideMirror.version + 1 ELSE 1
          IN  /\ redis' = [redis EXCEPT !.override[tx.roomId] =
                                          {OverrideDoc(tx.overrideEnabled, newVer)}]
              /\ \/ /\ tx' = [tx EXCEPT !.overrideMirror =
                                          [known |-> TRUE, version |-> newVer,
                                           enabled |-> tx.overrideEnabled],
                                        !.overrideDirty = FALSE, !.pc = "pass"]
                    /\ UNCHANGED net
                 \/ /\ CanFault
                    /\ net' = Fault
                    /\ tx' = TxDropRedis(tx)


\* The version a reader of room:<id>:desired finds there, 0 when absent or invalid.
SnapshotVer(stored) ==
  IF stored = {} \/ ~TheOne(stored).ok THEN 0 ELSE VerOr(TheOne(stored).ver, 0)

\* The model's writers stop starting new writes at these bounds.
CanWrite(r) ==
  /\ Len(redis.cmd[r]) < MaxStream
  /\ SnapshotVer(redis.desired[r]) < MaxVer

\* A candidate that takes the schedule value whatever the override says.
CandidateFromSchedule(s, sched) ==
  [s.lastDesired EXCEPT !.brightness = sched, !.mode = IF sched > 0 THEN "on" ELSE "off"]

\* maybePublishScheduledState from the seed on: the candidate, the sameDesired gate
\* and publishDesired's version bump.
Candidate(s, sched) ==
  LET b == IF s.overrideEnabled THEN s.overrideBrightness ELSE sched
  IN  [s.lastDesired EXCEPT !.brightness = b, !.mode = IF b > 0 THEN "on" ELSE "off"]

\* A gate that never holds a publish back.
PublishesAlways(same, force) == FALSE

\* if (same && !desiredForcePublish) return;  esp-sender has no flag: if (same) return;
SkipsPublish(same, force) == same /\ ~force

\* publishDesired sending the candidate with the version it came with.
DecidedNoBump(s, sched) ==
  LET desired == Candidate(s, sched)
  IN  IF SkipsPublish(sameDesired(desired, s.lastDesired), s.desiredForcePublish)
      THEN [s EXCEPT !.overridePublishHint = FALSE, !.pc = "loop"]
      ELSE [s EXCEPT !.desired = desired, !.pc = "set"]

Decided(s, sched) ==
  LET desired == Candidate(s, sched)
  IN  IF SkipsPublish(sameDesired(desired, s.lastDesired), s.desiredForcePublish)
      THEN [s EXCEPT !.overridePublishHint = FALSE, !.pc = "loop"]
      ELSE [s EXCEPT !.desired = [desired EXCEPT !.ver = IF @ <= s.localVer
                                                         THEN s.localVer + 1 ELSE @],
                     !.pc = "set"]

ObsDecided(o, s, sched) ==
  [o EXCEPT !.pass = IF Decided(s, sched).pc = "set" THEN "publish" ELSE "skip",
            !.passSame = sameDesired(Candidate(s, sched), s.lastDesired),
            !.passForce = s.desiredForcePublish,
            !.passToggled = o.toggled,
            !.passElapsed = o.elapsed,
            !.passOverride = s.overrideEnabled,
            !.passSched = IF s.overrideEnabled THEN -1 ELSE sched,
            !.passBrightness = Candidate(s, sched).brightness,
            !.toggled = FALSE]

\* maybePublishScheduledState up to its first command.
TxPass ==
  /\ tx.pc = "pass"
  /\ tx.roomId # NoRoom => CanWrite(tx.roomId) /\ tx.localVer < MaxVer
  /\ UNCHANGED <<redis, rx, web, net>>
  /\ \E elapsed \in BOOLEAN, haveTime \in BOOLEAN, sched \in Levels :
       IF \/ ~tx.overridePublishHint /\ ~elapsed
          \/ tx.roomId = NoRoom \/ ~tx.conn
          \/ ~tx.scheduleLoaded /\ ~tx.overrideEnabled
          \/ ~tx.overrideEnabled /\ ~haveTime
       THEN /\ tx' = [tx EXCEPT !.pc = "loop"]
            /\ UNCHANGED obs
       ELSE IF tx.needsVersionSeed
            THEN /\ tx' = [tx EXCEPT !.pc = "seed_desired"]
                 /\ obs' = [obs EXCEPT !.elapsed = elapsed]
            ELSE /\ tx' = Decided(tx, sched)
                 /\ obs' = ObsDecided([obs EXCEPT !.elapsed = elapsed], tx, sched)

\* part_003's decodeSnapshot: a bad or missing mode keeps the default.
decodeSnapshot(doc) ==
  Desired(IF copyModeOk(doc.mode) THEN TheOne(doc.mode) ELSE DefaultDesired.mode,
          clampBrightness(BrightnessOr(doc.brightness, DefaultDesired.brightness)),
          VerOr(doc.ver, DefaultDesired.ver))

\* part_003's loadSnapshot result 1: the key holds a non-empty payload that parses.
SnapshotLoads(stored) == stored # {} /\ TheOne(stored).ok

SeededFrom(s, snapshot) ==
  [s EXCEPT !.localVer = snapshot.ver, !.lastDesired = snapshot, !.needsVersionSeed = FALSE]

\* esp-sender's seedVersionFromRedis: only localVer, from a strictly decoded desired.
SeededLegacy(s, stored) ==
  [s EXCEPT !.localVer = IF stored # {} /\ decodeDesired(TheOne(stored), DefaultDesired).ok
                         THEN decodeDesired(TheOne(stored), DefaultDesired).d.ver ELSE 0,
            !.needsVersionSeed = FALSE]

FallsBackToReported(build) == build = "part_003"

\* seedVersionFromRedis: GET room:<id>:desired, then the rest of the pass.
TxSeedDesired ==
  /\ tx.pc = "seed_desired"
  /\ UNCHANGED <<redis, rx, web>>
  /\ IF ~tx.conn
     THEN /\ tx' = TxDropRedis(tx)
          /\ UNCHANGED <<net, obs>>
     ELSE \/ /\ UNCHANGED net
             /\ LET stored == redis.desired[tx.roomId]
                IN  IF FallsBackToReported(tx.build) /\ ~SnapshotLoads(stored)
                    THEN /\ tx' = [tx EXCEPT !.pc = "seed_reported"]
                         /\ UNCHANGED obs
                    ELSE LET s == IF FallsBackToReported(tx.build)
                                  THEN SeededFrom(tx, decodeSnapshot(TheOne(stored)))
                                  ELSE SeededLegacy(tx, stored)
                         IN  \E sched \in Levels :
                               /\ tx' = Decided(s, sched)
                               /\ obs' = ObsDecided(obs, s, sched)
          \/ /\ CanFault
             /\ net' = Fault
             /\ tx' = TxDropRedis(tx)
             /\ UNCHANGED obs

\* seedVersionFromRedis: GET room:<id>:reported, then the rest of the pass.
TxSeedReported ==
  /\ tx.pc = "seed_reported"
  /\ UNCHANGED <<redis, rx, web>>
  /\ IF ~tx.conn
     THEN /\ tx' = TxDropRedis(tx)
          /\ UNCHANGED <<net, obs>>
     ELSE \/ /\ UNCHANGED net
             /\ LET stored == redis.reported[tx.roomId]
                    s == SeededFrom(tx, IF SnapshotLoads(stored)
                                        THEN decodeSnapshot(TheOne(stored))
                                        ELSE DefaultDesired)
                IN  \E sched \in Levels :
                      /\ tx' = Decided(s, sched)
                      /\ obs' = ObsDecided(obs, s, sched)
          \/ /\ CanFault
             /\ net' = Fault
             /\ tx' = TxDropRedis(tx)
             /\ UNCHANGED obs

ObsPublished(o, r, ver) ==
  [o EXCEPT !.pubVer = ver, !.pubPrevMax = o.pubMax[r], !.pubMax[r] = Max(@, ver)]

\* publishDesired: SET room:<id>:desired.
TxSet ==
  /\ tx.pc = "set"
  /\ UNCHANGED <<rx, web>>
  /\ IF ~tx.conn
     THEN /\ tx' = TxDropRedis(tx)
          /\ UNCHANGED <<redis, net, obs>>
     ELSE /\ redis' = [redis EXCEPT !.desired[tx.roomId] = {encodeDesired(tx.desired, tx.roomId)}]
          /\ obs' = ObsPublished(obs, tx.roomId, tx.desired.ver)
          /\ \/ /\ tx' = [tx EXCEPT !.pc = "xadd"]
                /\ UNCHANGED net
             \/ /\ CanFault
                /\ net' = Fault
                /\ tx' = TxDropRedis(tx)

\* publishDesired: XADD cmd:room:<id>, XTRIM, and the bookkeeping of a publish.
TxXadd ==
  /\ tx.pc = "xadd"
  /\ UNCHANGED <<rx, web>>
  /\ obs' = [obs EXCEPT !.pubVer = -1, !.pubPrevMax = -1]
  /\ IF ~tx.conn
     THEN /\ tx' = TxDropRedis(tx)
          /\ UNCHANGED <<redis, net>>
     ELSE \/ /\ redis' = [redis EXCEPT !.cmd[tx.roomId] =
                            Xtrim(Xadd(@, <<"p">>, encodeDesired(tx.desired, tx.roomId)),
                                  kStreamTrimLen)]
             /\ tx' = [tx EXCEPT !.localVer = tx.desired.ver, !.lastDesired = tx.desired,
                                 !.desiredForcePublish = FALSE,
                                 !.overridePublishHint = FALSE,
                                 !.desired = DefaultDesired, !.pc = "loop"]
             /\ UNCHANGED net
          \/ /\ CanFault
             /\ net' = Fault
             /\ redis' = [redis EXCEPT !.cmd[tx.roomId] =
                            Xadd(@, <<"p">>, encodeDesired(tx.desired, tx.roomId))]
             /\ tx' = TxDropRedis(tx)

TxStep ==
  \/ TxLoop
  \/ TxCfg
  \/ TxOverrideGet
  \/ TxOverrideSet
  \/ TxPass
  \/ TxSeedDesired
  \/ TxSeedReported
  \/ TxSet
  \/ TxXadd

(***************************************************************************)
(* The website (Node server): its brightness quick action and its override *)
(* toggle, each a read of the current document followed by writes.         *)
(***************************************************************************)
WebLevels == {100}

InitWeb == [pc |-> "idle", room |-> NoRoom, next |-> DefaultOffDoc, reqs |-> 0]

\* readDesiredPayload(payload).ver
readDesiredVer(stored) ==
  IF stored = {} \/ ~TheOne(stored).ok \/ TheOne(stored).ver = {} THEN 0
  ELSE TheOne(TheOne(stored).ver)

\* sendBrightnessCommand: GET room:<id>:desired and build the next document.
WebGet ==
  /\ web.pc = "idle"
  /\ web.reqs < MaxWebReqs
  /\ \E r \in ConsoleRooms, b \in WebLevels :
       /\ CanWrite(r)
       /\ web' = [pc |-> "set", room |-> r, reqs |-> web.reqs + 1,
                  next |-> Doc({IF b > 0 THEN "on" ELSE "off"}, {b},
                               {readDesiredVer(redis.desired[r]) + 1}, {r})]
  /\ UNCHANGED <<redis, rx, tx, net, obs>>

\* sendBrightnessCommand: SET room:<id>:desired.
WebSet ==
  /\ web.pc = "set"
  /\ redis' = [redis EXCEPT !.desired[web.room] = {web.next}]
  /\ web' = [web EXCEPT !.pc = "xadd"]
  /\ UNCHANGED <<rx, tx, net, obs>>

\* sendBrightnessCommand: XADD cmd:room:<id> * p <json>, then XTRIM.
WebXadd ==
  /\ web.pc = "xadd"
  /\ redis' = [redis EXCEPT !.cmd[web.room] = Xtrim(Xadd(@, <<"p">>, web.next), kStreamTrimLen)]
  /\ web' = [web EXCEPT !.pc = "idle", !.room = NoRoom, !.next = DefaultOffDoc]
  /\ UNCHANGED <<rx, tx, net, obs>>

\* setOverrideState: getOverrideState, then SET room:<id>:override with ver + 1.
WebOverrideGet ==
  /\ web.pc = "idle"
  /\ web.reqs < MaxWebReqs
  /\ \E r \in ConsoleRooms, enabled \in BOOLEAN :
       /\ OverrideVer(redis, r) < MaxOverrideVer
       /\ web' = [pc |-> "override_set", room |-> r, reqs |-> web.reqs + 1,
                  next |-> OverrideDoc(enabled, OverrideVer(redis, r) + 1)]
  /\ UNCHANGED <<redis, rx, tx, net, obs>>

WebOverrideSet ==
  /\ web.pc = "override_set"
  /\ redis' = [redis EXCEPT !.override[web.room] = {web.next}]
  /\ web' = [web EXCEPT !.pc = "idle", !.room = NoRoom, !.next = DefaultOffDoc]
  /\ UNCHANGED <<rx, tx, net, obs>>

WebStep ==
  \/ WebGet
  \/ WebSet
  \/ WebXadd
  \/ WebOverrideGet
  \/ WebOverrideSet

(***************************************************************************)
(* The Publisher and the website, with transport faults.                   *)
(***************************************************************************)
NextTx ==
  \/ TxLoop
  \/ TxCfg
  \/ TxOverrideGet
  \/ TxOverrideSet
  \/ TxPass
  \/ TxSeedDesired
  \/ TxSeedReported
  \/ TxSet
  \/ TxXadd
  \/ TxAnnounce
  \/ TxButton
  \/ TxKnob
  \/ TxLinkDown
  \/ WebGet
  \/ WebSet
  \/ WebXadd
  \/ WebOverrideGet
  \/ WebOverrideSet


(***************************************************************************)
(* Any other Redis client (redis-cli, a script): it may SET the snapshot   *)
(* key and XADD to the command stream whatever it likes, well-formed or    *)
(* not.                                                                    *)
(***************************************************************************)
ClientVersions == 1..MaxVer

ClientDocs ==
  {Doc({"on"}, {40}, {v}, {}) : v \in ClientVersions}
    \cup {GarbageDoc, Doc({"dim"}, {40}, {MaxVer}, {}), Doc({"off"}, {0}, {}, {})}

ClientFieldNames == {<<"p">>, <<"q">>, <<"p", "q">>}

Provisioned(r) == redis.roomDevice[r] # {}

ClientSetDesired ==
  \E r \in DOMAIN redis.desired, doc \in ClientDocs :
    /\ Provisioned(r)
    /\ redis' = [redis EXCEPT !.desired[r] = {doc}]
    /\ UNCHANGED <<rx, tx, web, net, obs>>

ClientXadd ==
  \E r \in Rooms, names \in ClientFieldNames, doc \in ClientDocs :
    /\ Provisioned(r)
    /\ Len(redis.cmd[r]) < MaxClientEntries
    /\ redis' = [redis EXCEPT !.cmd[r] = Xadd(@, names, doc)]
    /\ UNCHANGED <<rx, tx, web, net, obs>>

Init ==
  /\ redis = InitRedis
  /\ rx = InitRx
  /\ tx \in InitTx
  /\ web = InitWeb
  /\ net = InitNet
  /\ obs = InitObs

(***************************************************************************)
(* The Actuator against arbitrary clients.                                 *)
(***************************************************************************)
NextRx ==
  \/ RxEnsure
  \/ RxProvision
  \/ RxPull
  \/ RxRecordSnapshot
  \/ RxHeartbeat
  \/ RxPrime
  \/ RxXread
  \/ RxRecordCommand
  \/ RxLinkDown
  \/ ClientSetDesired
  \/ ClientXadd

\* The Publisher is switched off: its build and knob position play no part.
InitRxAlone ==
  /\ Init
  /\ tx.build = "part_003"
  /\ tx.overrideBrightness = 0

SpecRx == InitRxAlone /\ [][NextRx]_vars

SpecTx == Init /\ [][NextTx]_vars

\* loop() runs forever: the Actuator always takes its next step.
SpecRxLive == SpecRx /\ WF_vars(RxStep)

JustApplied == rx.pc \in {"record_snap", "record_cmd"}

\* C1: a payload delivered from the command stream is applied only when its
\* decoded ver is strictly greater than the lastAppliedVer it met; the applied
\* version becomes lastAppliedVer and lastDesired.ver.
C1_StreamApplyOnlyNewer ==
  rx.pc = "record_cmd" =>
    /\ rx.lastAppliedVer > obs.prevApplied
    /\ rx.lastDesired.ver = rx.lastAppliedVer
    /\ rx.hasDesired

C1_Witness ==
  /\ rx.pc = "record_cmd"
  /\ obs.prevApplied = 1
  /\ rx.lastAppliedVer = 2

\* C2 as stated: over the whole run, resets and reconnects included, every
\* applied version is strictly greater than every version applied before.
C2_AppliedNeverRepeats ==
  JustApplied => rx.lastAppliedVer > obs.prevMax

\* C2 amended: between two resets of lastAppliedVer the applied versions are
\* strictly increasing; the first apply after a reset is the snapshot.
C2_IncreasingWithinEpoch ==
  JustApplied =>
    /\ rx.lastAppliedVer > obs.prevEpochMax
    /\ (obs.prevEpochMax = -1 <=> rx.pc = "record_snap")

C2_Witness ==
  /\ rx.pc = "record_snap"
  /\ obs.prevMax >= rx.lastAppliedVer
  /\ obs.prevMax >= 1

\* C4: while the connection stays up, the cursor eventually moves past every
\* entry appended to the command stream, whatever the entry holds.
C4_CursorPassesEveryEntry ==
  \A k \in 1..MaxClientEntries :
    [](Len(redis.cmd[PROVISIONING_BASE_ID]) >= k
         => <>(~rx.conn \/ (rx.streamCursorValid /\ rx.lastStreamId >= k)))

\* C5: a dropRedis and a new connection both leave lastAppliedVer and the cursor
\* cleared; an XREAD goes out only after a snapshot pull and a cursor obtained on
\* the same connection.
Cleared(s) ==
  /\ s.lastAppliedVer = 0
  /\ ~s.hasDesired
  /\ ~s.streamCursorValid
  /\ s.lastStreamId = NoId

C6_PublishedNeverRegresses ==
  obs.pubVer # -1 => obs.pubVer > obs.pubPrevMax

C9_ToggleForcesWrite ==
  obs.pass # "none" /\ obs.passToggled => obs.pass = "publish"

\* C10: a publish pass that runs with override active and the minimum publish
\* interval elapsed writes the desired state, whatever the candidate.
C10_OverrideRepublishes ==
  obs.pass # "none" /\ obs.passOverride /\ obs.passElapsed => obs.pass = "publish"

(***************************************************************************)
(* The Publisher and the Actuator on one room, without and with the        *)
(* website.  The environment injects no transport fault, and nobody        *)
(* touches the Publisher's button, knob or console.                        *)
(***************************************************************************)
InitNoFaults ==
  /\ redis = InitRedis
  /\ rx = InitRx
  /\ tx \in InitTx
  /\ tx.overrideBrightness = 0
  /\ web = InitWeb
  /\ net = [faults |-> MaxFaults]
  /\ obs = InitObs

NextPair ==
  \/ RxEnsure
  \/ RxProvision
  \/ RxPull
  \/ RxRecordSnapshot
  \/ RxHeartbeat
  \/ RxPrime
  \/ RxXread
  \/ RxRecordCommand
  \/ TxLoop
  \/ TxCfg
  \/ TxOverrideGet
  \/ TxPass
  \/ TxSeedDesired
  \/ TxSeedReported
  \/ TxSet
  \/ TxXadd

NextAll ==
  \/ RxEnsure
  \/ RxProvision
  \/ RxPull
  \/ RxRecordSnapshot
  \/ RxHeartbeat
  \/ RxPrime
  \/ RxXread
  \/ RxRecordCommand
  \/ TxLoop
  \/ TxCfg
  \/ TxOverrideGet
  \/ TxPass
  \/ TxSeedDesired
  \/ TxSeedReported
  \/ TxSet
  \/ TxXadd
  \/ WebGet
  \/ WebSet
  \/ WebXadd

\* Both loop() functions run forever, and the website finishes a request it began.
SpecPair == InitNoFaults /\ [][NextPair]_vars /\ WF_vars(RxStep) /\ WF_vars(TxStep)

SpecAll ==
  /\ InitNoFaults
  /\ [][NextAll]_vars
  /\ WF_vars(RxStep)
  /\ WF_vars(TxStep)
  /\ WF_vars(WebSet \/ WebXadd)

\* What the Actuator has applied, and what room:<id>:desired holds.
AppliedState == [mode |-> rx.lastDesired.mode, brightness |-> rx.lastDesired.brightness,
                 ver |-> rx.lastAppliedVer]

StoredDesired(r) ==
  IF redis.desired[r] = {} THEN DefaultDesired
  ELSE decodeDesired(TheOne(redis.desired[r]), DefaultDesired).d

\* C3: with the Publisher writing while the Actuator syncs, once publishing has
\* stopped and the Actuator's connection stays up, the applied version eventually
\* equals, and stays equal to, the version stored in room:<id>:desired.
C3_AppliedReachesSnapshotVer ==
  <>[](rx.conn) =>
    <>[](rx.hasDesired /\ rx.lastAppliedVer = StoredDesired(PROVISIONING_BASE_ID).ver)

\* C7: with the Publisher and the website both writing, once the writers have
\* stopped and the Actuator's connection stays up, the applied state eventually
\* equals, and stays equal to, the content of room:<id>:desired.
C7_AppliedReachesSnapshot ==
  <>[](rx.conn) =>
    <>[](rx.hasDesired /\ AppliedState = StoredDesired(PROVISIONING_BASE_ID))

(***************************************************************************)
(* The Publisher starting against a store that earlier sessions left       *)
(* behind: room:<id>:desired and room:<id>:reported each absent or holding *)
(* a document written by encodeDesired.                                    *)
(***************************************************************************)
StoredSnapshots ==
  {{}} \cup {{encodeDesired(Desired("on", b, 1), PROVISIONING_BASE_ID)} : b \in {60}}

InitSeed ==
  /\ \E d \in StoredSnapshots, r \in StoredSnapshots :
       redis = [InitRedis EXCEPT !.desired[PROVISIONING_BASE_ID] = d,
                                 !.reported[PROVISIONING_BASE_ID] = r]
  /\ rx = InitRx
  /\ tx \in InitTx
  /\ web = InitWeb
  /\ net = InitNet
  /\ obs = InitObs

NextSeed ==
  \/ TxLoop
  \/ TxCfg
  \/ TxOverrideGet
  \/ TxPass
  \/ TxSeedDesired
  \/ TxSeedReported
  \/ TxSet
  \/ TxXadd
  \/ TxAnnounce
  \/ TxKnob
  \/ TxLinkDown

SpecSeed == InitSeed /\ [][NextSeed]_vars

\* The version the seed is said to take: desired's, else reported's, else 0.
SeedSource(store, r) ==
  IF store.desired[r] # {} THEN SnapshotVer(store.desired[r])
  ELSE IF store.reported[r] # {} THEN SnapshotVer(store.reported[r])
  ELSE 0

\* C11: a step that clears needsVersionSeed leaves localVer at the version of
\* room:<id>:desired, of room:<id>:reported when desired is absent, and 0 when
\* both are; once cleared the flag is set again only by a step that ends or
\* begins a connection; no SET is about to go out while it is set.
C11_SeededOncePerEpoch ==
  [][/\ tx.needsVersionSeed /\ ~tx'.needsVersionSeed =>
          tx'.localVer = SeedSource(redis, tx.roomId)
     /\ ~tx.needsVersionSeed /\ tx'.needsVersionSeed => ~tx.conn \/ ~tx'.conn
     /\ tx'.pc = "set" => ~tx'.needsVersionSeed]_vars

\* C12: a step on which a reply is lost or the link closes leaves a cached room
\* id in place, and so does the connect that follows it: the room id obtained
\* from one provisioning call is still there on the next connection.
C12_RoomIdKeptOnTransientFailure ==
  [][rx.roomId # NoRoom /\ (net'.faults > net.faults \/ (~rx.conn /\ rx'.conn)) =>
       rx'.roomId = rx.roomId]_vars

\* C13: the Actuator is about to issue a command on its connection only when
\* every earlier reply on that connection has been read to its end.
SendsNext(s) ==
  s.conn /\ s.pc \in {"provision", "pull", "record_snap", "record_cmd", "prime", "xread"}

C13_OneCommandInFlight ==
  SendsNext(rx) => ~rx.unread

(***************************************************************************)
(* The provisioning script on its own: several devices EVAL it, each with  *)
(* a base of its own, against a store whose rooms:next_id holds whatever   *)
(* was there before; other clients overwrite the snapshots in between.     *)
(***************************************************************************)
ProvDevices == {RxDevice, "rx-mac-b"}

ProvBases == {PROVISIONING_BASE_ID, PROVISIONING_BASE_ID + 2}

PriorNextIds == {-1, 0, PROVISIONING_BASE_ID - 1, PROVISIONING_BASE_ID, PROVISIONING_BASE_ID + 3}

\* Every room id the script can hand out from these inputs.
ProvRooms == PROVISIONING_BASE_ID..(PROVISIONING_BASE_ID + 3 + Cardinality(ProvDevices))

ProvStore(nextId) ==
  [desired    |-> [r \in ProvRooms |-> {}],
   reported   |-> [r \in ProvRooms |-> {}],
   cmd        |-> [r \in ProvRooms |-> <<>>],
   state      |-> [r \in ProvRooms |-> {}],
   override   |-> [r \in ProvRooms |-> {}],
   deviceRoom |-> [d \in ProvDevices |-> {}],
   roomDevice |-> [r \in ProvRooms |-> {}],
   next_id    |-> nextId]

InitProvision ==
  /\ redis \in {ProvStore(n) : n \in PriorNextIds}
  /\ rx = InitRx
  /\ tx \in {t \in InitTx : t.build = "part_003" /\ t.overrideBrightness = 0}
  /\ web = InitWeb
  /\ net = InitNet
  /\ obs = InitObs

MappedRoom(store, dev) ==
  IF store.deviceRoom[dev] = {} THEN NoRoom ELSE TheOne(store.deviceRoom[dev])

SnapshotAt(store, rid) == IF rid \in DOMAIN store.desired THEN store.desired[rid] ELSE {}

\* redis.evalRoomScript(kProvisionScript, deviceId, base, rid)
DeviceProvision ==
  \E dev \in ProvDevices, base \in ProvBases :
    /\ redis' = ProvisionScript(redis, dev, base)
    /\ obs' = [obs EXCEPT !.call = [dev |-> dev, base |-> base,
                                    rid |-> ProvisionRid(redis, dev, base),
                                    prior |-> MappedRoom(redis, dev),
                                    counter |-> redis.next_id,
                                    found |-> SnapshotAt(redis, ProvisionRid(redis, dev, base)),
                                    changed |-> ProvisionScript(redis, dev, base) # redis]]
    /\ UNCHANGED <<rx, tx, web, net>>

NextProvision ==
  \/ DeviceProvision
  \/ ClientSetDesired

SpecProvision == InitProvision /\ [][NextProvision]_vars

Called == obs.call.dev # ""

\* C14: a call for a device that already has a room returns that room and changes
\* no key, so a snapshot stored under room:<id>:desired survives it; and what a
\* call returns is what device:<mac>:room holds from then on.
C14_ProvisionIdempotent ==
  /\ Called /\ obs.call.prior # NoRoom =>
       obs.call.rid = obs.call.prior /\ ~obs.call.changed
  /\ Called => redis.deviceRoom[obs.call.dev] = {obs.call.rid}

C14_Witness ==
  /\ Called
  /\ obs.call.prior # NoRoom
  /\ obs.call.found \in {{Doc({"on"}, {40}, {v}, {})} : v \in ClientVersions}
  /\ redis.desired[obs.call.rid] = obs.call.found

\* C15: a call that allocates (the device had no room) returns a room id that is
\* not below the base it was given, whatever rooms:next_id held.
C15_AllocatedNotBelowBase ==
  Called /\ obs.call.prior = NoRoom => obs.call.rid >= obs.call.base

C15_Witness ==
  /\ Called
  /\ obs.call.prior = NoRoom
  /\ obs.call.counter + 1 < obs.call.base
  /\ obs.call.rid = obs.call.base
  /\ redis.next_id = obs.call.base

\* C16: no two devices are mapped to the same room id, and device:<mac>:room and
\* room:<id>:device are each other's inverse.
C16_RoomsOneToOne ==
  /\ \A d1 \in DOMAIN redis.deviceRoom, d2 \in DOMAIN redis.deviceRoom :
       d1 # d2 /\ redis.deviceRoom[d1] # {} => redis.deviceRoom[d1] # redis.deviceRoom[d2]
  /\ \A d \in DOMAIN redis.deviceRoom, r \in DOMAIN redis.roomDevice :
       redis.deviceRoom[d] = {r} <=> redis.roomDevice[r] = {d}
  /\ \A d \in DOMAIN redis.deviceRoom :
       redis.deviceRoom[d] \subseteq DOMAIN redis.roomDevice

C16_Witness ==
  /\ Called
  /\ \A d \in ProvDevices : redis.deviceRoom[d] # {}
  /\ obs.call.prior = NoRoom
  /\ obs.call.base < obs.call.counter

(***************************************************************************)
(* The codecs on their own: each decoder of the desired state applied to   *)
(* documents of every shape, onto target states of every kind.             *)
(***************************************************************************)
CodecModes == {{}, {"on"}, {"off"}, {"ON"}, {"dim"}}

CodecBrightness == {{}, {-5}, {0}, {40}, {100}, {150}, {255}, {256}, {300}}

CodecVers == {{}, {0}, {3}}

CodecDocs ==
  {Doc(m, b, v, {}) : m \in CodecModes, b \in CodecBrightness, v \in CodecVers}
    \cup {GarbageDoc}

CodecTargets == {Desired(m, b, v) : m \in {"on", "off"}, b \in {0, 70}, v \in {0, 2}}

CodecCall(fn, payload, before, ok, out) ==
  [NoCodec EXCEPT !.fn = fn, !.payload = payload, !.before = before, !.ok = ok, !.out = out]

\* contracts::decodeDesired and decodeDesiredJson: bool f(json, Desired &out).
CodecDecodeDesired ==
  \E payload \in CodecDocs, before \in CodecTargets :
    /\ obs' = [obs EXCEPT !.codec =
                 CodecCall("decodeDesired", payload, before,
                         decodeDesired(payload, before).ok, decodeDesired(payload, before).d)]
    /\ UNCHANGED <<redis, rx, tx, web, net>>

\* part_003's loadSnapshot and decodeSnapshot, onto a fresh contracts::Desired.
CodecDecodeSnapshot ==
  \E payload \in CodecDocs :
    /\ obs' = [obs EXCEPT !.codec =
                 CodecCall("decodeSnapshot", payload, DefaultDesired,
                         SnapshotLoads({payload}),
                         IF SnapshotLoads({payload}) THEN decodeSnapshot(payload)
                         ELSE DefaultDesired)]
    /\ UNCHANGED <<redis, rx, tx, web, net>>

\* Valid states: mode on or off, brightness in 0..100, a version of any size.
ValidDesired ==
  {Desired(m, b, v) : m \in {"on", "off"}, b \in {0, 1, 100}, v \in {0, 1, 2147483647}}

\* contracts::encodeDesired, then contracts::decodeDesired on what it produced.
CodecRoundTrip ==
  \E d \in ValidDesired, room \in {NoRoom} \cup Rooms, before \in CodecTargets :
    LET json == encodeDesired(d, room)
    IN  /\ obs' = [obs EXCEPT !.codec =
                     [CodecCall("roundtrip", json, before,
                                decodeDesired(json, before).ok, decodeDesired(json, before).d)
                        EXCEPT !.given = d]]
        /\ UNCHANGED <<redis, rx, tx, web, net>>

\* States the Actuator can be handed: either mode with any brightness.
ApplyStates == {Desired(m, b, 0) : m \in {"on", "off"}, b \in {0, 1, 60, 100}}

\* applyPwm(desired).
CodecApplyPwm ==
  \E d \in ApplyStates :
    /\ obs' = [obs EXCEPT !.codec =
                 [NoCodec EXCEPT !.fn = "applyPwm", !.given = d, !.writes = ChannelWrites(d)]]
    /\ UNCHANGED <<redis, rx, tx, web, net>>

InitCodec ==
  /\ Init
  /\ tx.build = "part_003"
  /\ tx.overrideBrightness = 0

NextCodec ==
  \/ CodecDecodeDesired
  \/ CodecDecodeSnapshot
  \/ CodecRoundTrip
  \/ CodecApplyPwm

SpecCodec == InitCodec /\ [][NextCodec]_vars

Decoders == {"decodeDesired", "decodeSnapshot"}

\* C17: a decoder of the desired state succeeds only on a document that parsed
\* and whose mode is exactly "on" or "off", and then takes that mode; when it
\* fails the target state is as it was.
C17_UnknownModeIsDecodeFailure ==
  obs.codec.fn \in Decoders =>
    /\ obs.codec.ok =>
         /\ obs.codec.payload.ok
         /\ obs.codec.payload.mode \in {{"on"}, {"off"}}
         /\ obs.codec.out.mode = TheOne(obs.codec.payload.mode)
    /\ ~obs.codec.ok => obs.codec.out = obs.codec.before

(***************************************************************************)
(* Each device against clients that write brightness values no device      *)
(* would: negative, above 100, beyond eight bits.  One device runs at a     *)
(* time: the Actuator while the Publisher has not started, the Publisher    *)
(* while the Actuator has not started.                                      *)
(***************************************************************************)
HostileDocs ==
  {Doc({"on"}, {150}, {1}, {}), Doc({"on"}, {300}, {MaxVer}, {}), Doc({"on"}, {-5}, {MaxVer}, {})}

HostileSetDesired ==
  \E doc \in HostileDocs :
    /\ redis' = [redis EXCEPT !.desired[PROVISIONING_BASE_ID] = {doc}]
    /\ UNCHANGED <<rx, tx, web, net, obs>>

HostileXadd ==
  \E doc \in HostileDocs :
    /\ Len(redis.cmd[PROVISIONING_BASE_ID]) < MaxClientEntries
    /\ redis' = [redis EXCEPT !.cmd[PROVISIONING_BASE_ID] = Xadd(@, <<"p">>, doc)]
    /\ UNCHANGED <<rx, tx, web, net, obs>>

\* room:<id>:reported as an earlier session or a client left it.
InitClamp ==
  /\ \E r \in {{}} \cup {{doc} : doc \in HostileDocs} :
       redis = [InitRedis EXCEPT !.reported[PROVISIONING_BASE_ID] = r]
  /\ rx = InitRx
  /\ tx \in InitTx
  /\ web = InitWeb
  /\ net = InitNet
  /\ obs = InitObs

PublisherOff == tx \in InitTx

ActuatorOff == rx = InitRx

NextClamp ==
  \/ PublisherOff /\ RxEnsure
  \/ PublisherOff /\ RxProvision
  \/ PublisherOff /\ RxPull
  \/ PublisherOff /\ RxRecordSnapshot
  \/ PublisherOff /\ RxHeartbeat
  \/ PublisherOff /\ RxPrime
  \/ PublisherOff /\ RxXread
  \/ PublisherOff /\ RxRecordCommand
  \/ ActuatorOff /\ TxLoop
  \/ ActuatorOff /\ TxCfg
  \/ ActuatorOff /\ TxOverrideGet
  \/ ActuatorOff /\ TxPass
  \/ ActuatorOff /\ TxSeedDesired
  \/ ActuatorOff /\ TxSeedReported
  \/ ActuatorOff /\ TxSet
  \/ ActuatorOff /\ TxXadd
  \/ ActuatorOff /\ TxAnnounce
  \/ ActuatorOff /\ TxKnob
  \/ HostileSetDesired
  \/ HostileXadd

SpecClamp == InitClamp /\ [][NextClamp]_vars

InRange(b) == b >= 0 /\ b <= 100

\* The documents of a room that a device wrote: everything in the store that is
\* not one of the clients' documents.
DeviceWritten(r) ==
  ((redis.desired[r] \cup redis.reported[r] \cup redis.state[r])
     \cup {redis.cmd[r][i].v : i \in 1..Len(redis.cmd[r])}) \ HostileDocs

\* C18: whatever brightness the decoded documents carry, the Actuator's applied
\* state, the Publisher's published state, the payloads both are about to write
\* and every document a device wrote to the store have brightness in 0..100.
C18_BrightnessInRange ==
  /\ InRange(rx.lastDesired.brightness)
  /\ InRange(tx.lastDesired.brightness)
  /\ InRange(tx.desired.brightness)
  /\ rx.hasDesired => \A b \in rx.jsonScratch.brightness : InRange(b)
  /\ \A r \in Rooms : \A doc \in DeviceWritten(r) : \A b \in doc.brightness : InRange(b)

\* The Actuator applied a command whose brightness was above 100 and reported it.
C18_Witness ==
  /\ rx.hasDesired
  /\ rx.lastDesired.brightness = 100
  /\ \E r \in Rooms : \E doc \in redis.reported[r] :
       doc.brightness = {100} /\ doc.room = {r}
  /\ \E r \in Rooms : \E i \in 1..Len(redis.cmd[r]) :
       /\ redis.cmd[r][i].v.brightness = {150}
       /\ redis.cmd[r][i].id = rx.lastStreamId

\* C19: decodeDesired applied to what encodeDesired produced from a valid state
\* succeeds and yields that state's mode, brightness and version, whatever the room
\* id and whatever the target held before.
C19_RoundTrip ==
  obs.codec.fn = "roundtrip" => obs.codec.ok /\ obs.codec.out = obs.codec.given

\* A state with the largest version, encoded with a room id and decoded onto a
\* target that differed from it in every member.
C19_Witness ==
  /\ obs.codec.fn = "roundtrip"
  /\ obs.codec.payload.room # {}
  /\ obs.codec.given.ver = 2147483647
  /\ obs.codec.given.mode # obs.codec.before.mode
  /\ obs.codec.given.brightness # obs.codec.before.brightness
  /\ obs.codec.out = obs.codec.given

\* C20: applyPwm on a state whose mode is off writes zero to every LED channel
\* whatever the brightness, and a non-zero write happens only for mode on with a
\* brightness above 0.
C20_OffDrivesZero ==
  obs.codec.fn = "applyPwm" =>
    /\ obs.codec.given.mode = "off" =>
         \A i \in DOMAIN obs.codec.writes : obs.codec.writes[i] = 0
    /\ (\E i \in DOMAIN obs.codec.writes : obs.codec.writes[i] # 0) =>
         obs.codec.given.mode = "on" /\ obs.codec.given.brightness > 0

\* Mode off with full brightness was applied and all three channels were written 0.
C20_Witness ==
  /\ obs.codec.fn = "applyPwm"
  /\ obs.codec.given.mode = "off"
  /\ obs.codec.given.brightness = 100
  /\ Len(obs.codec.writes) = Len(kLedChannels)
  /\ \A i \in DOMAIN obs.codec.writes : obs.codec.writes[i] = 0

(***************************************************************************)
(* RESP on the wire.  A byte is a one-character string, "CR" or "LF"; a    *)
(* reply is the sequence of bytes that arrives before the read timeout.    *)
(***************************************************************************)
CR == "CR"

LF == "LF"

CRLF == <<CR, LF>>

Digits == <<"0", "1", "2", "3", "4", "5", "6", "7", "8", "9">>

IsDigit(b) == \E i \in 1..Len(Digits) : Digits[i] = b

DigitVal(b) == (CHOOSE i \in 1..Len(Digits) : Digits[i] = b) - 1

\* The decimal text of a size, as Print::print(size_t) and a JS template write it.
RECURSIVE Decimal(_)
Decimal(n) == IF n < 10 THEN <<Digits[n + 1]>> ELSE Append(Decimal(n \div 10), Digits[(n % 10) + 1])

\* atol on an unsigned run of digits: stops at the first byte that is no digit.
RECURSIVE DigitRun(_, _)
DigitRun(line, acc) ==
  IF line = <<>> \/ ~IsDigit(Head(line)) THEN acc
  ELSE DigitRun(Tail(line), acc * 10 + DigitVal(Head(line)))

\* String::toInt
toInt(line) ==
  IF line # <<>> /\ Head(line) = "-" THEN 0 - DigitRun(Tail(line), 0) ELSE DigitRun(line, 0)

RECURSIVE Flatten(_)
Flatten(seqs) == IF seqs = <<>> THEN <<>> ELSE Head(seqs) \o Flatten(Tail(seqs))

\* Stream::readStringUntil('\n'): the bytes before the first LF, which is consumed;
\* everything that arrived when there is none.
FirstLF(bytes) ==
  IF \E i \in 1..Len(bytes) : bytes[i] = LF
  THEN CHOOSE i \in 1..Len(bytes) : bytes[i] = LF /\ \A j \in 1..(i - 1) : bytes[j] # LF
  ELSE 0

readStringUntilLF(bytes) ==
  IF FirstLF(bytes) = 0 THEN [line |-> bytes, rest |-> <<>>]
  ELSE [line |-> SubSeq(bytes, 1, FirstLF(bytes) - 1),
        rest |-> SubSeq(bytes, FirstLF(bytes) + 1, Len(bytes))]

\* RedisLink::readType on a connection that is up.
readType(bytes) ==
  IF bytes = <<>> THEN [ok |-> FALSE, type |-> "", line |-> <<>>, rest |-> <<>>, err |-> "redis timeout"]
  ELSE LET r    == readStringUntilLF(Tail(bytes))
           line == IF r.line # <<>> /\ r.line[Len(r.line)] = CR
                   THEN SubSeq(r.line, 1, Len(r.line) - 1) ELSE r.line
       IN  [ok |-> TRUE, type |-> Head(bytes), line |-> line, rest |-> r.rest, err |-> ""]

\* A reader that takes a negative length for an empty value.
NullFlagNever(len, wasNull) == FALSE

\* if (len < 0) { if (isNull) *isNull = true; ... } ... if (isNull) *isNull = false;
NullFlag(len, wasNull) == len < 0

\* RedisLink::readBulkString(out, &isNull); wasNull is the flag as the caller left it.
readBulkString(bytes, wasNull) ==
  LET t   == readType(bytes)
      len == toInt(t.line)
      Res(ok, out, isNull, err, rest) ==
        [ok |-> ok, out |-> out, isNull |-> isNull, err |-> err, rest |-> rest]
  IN  IF ~t.ok THEN Res(FALSE, <<>>, wasNull, t.err, t.rest)
      ELSE IF t.type = "$"
      THEN IF len < 0 THEN Res(TRUE, <<>>, NullFlag(len, wasNull), "", t.rest)
           ELSE IF Len(t.rest) < len
           THEN Res(FALSE, t.rest, wasNull, "bulk read timeout", <<>>)
           ELSE IF SubSeq(t.rest, len + 1, len + 2) # CRLF
           THEN Res(FALSE, SubSeq(t.rest, 1, len), wasNull, "bulk missing CRLF",
                    SubSeq(t.rest, len + 3, Len(t.rest)))
           ELSE Res(TRUE, SubSeq(t.rest, 1, len), NullFlag(len, wasNull), "",
                    SubSeq(t.rest, len + 3, Len(t.rest)))
      ELSE IF t.type = "-" THEN Res(FALSE, <<>>, wasNull, "server error", t.rest)
      ELSE Res(FALSE, <<>>, wasNull, "", t.rest)

\* What a Redis server answers to GET: nil, a value, or an error.
BulkValues ==
  {<<>>, <<"h">>, <<"h", "e", "l", "l", "o">>, <<"-", "1">>, <<CR, LF>>, <<"$", "0", CR, LF>>,
   <<"a", "b", "c", "d", "e", "f", "g", "h", "i", "j", "k", "l">>}

BulkReply(v) == <<"$">> \o Decimal(Len(v)) \o CRLF \o v \o CRLF

NullReply == <<"$", "-", "1">> \o CRLF

ErrorReplies == {<<"-", "E", "R", "R">> \o CRLF, <<"-", "W", "R", "O", "N", "G", "T", "Y", "P", "E">> \o CRLF}

\* Bytes of a following reply that are already in the socket.
Trailers == {<<>>, <<"+", "O", "K">> \o CRLF}

GetReplies ==
  {r \o t : r \in {BulkReply(v) : v \in BulkValues} \cup {NullReply} \cup ErrorReplies,
            t \in Trailers}

\* RedisLink::get once the command is sent.
RespGet ==
  \E reply \in GetReplies, wasNull \in BOOLEAN :
    LET r == readBulkString(reply, wasNull)
    IN  /\ obs' = [obs EXCEPT !.resp =
                     [NoResp EXCEPT !.fn = "get", !.reply = reply, !.wasNull = wasNull,
                                    !.ok = r.ok, !.out = r.out, !.isNull = r.isNull,
                                    !.err = r.err, !.rest = r.rest]]
        /\ UNCHANGED <<redis, rx, tx, web, net>>

\* An argument is text: a sequence of characters, each the bytes UTF-8 gives it.
Utf8(text) == Flatten(text)

\* A length taken in characters instead of bytes.
CharCount(text) == Len(text)

\* arg.len (strlen, String::length) and chunk.length of Buffer.from(String(part)).
ByteLength(text) == Len(Utf8(text))

\* RedisLink::sendCommand: what the prints and writes put on the wire.
RECURSIVE sendCommandArgs(_)
sendCommandArgs(args) ==
  IF args = <<>> THEN <<>>
  ELSE <<"$">> \o Decimal(ByteLength(Head(args))) \o CRLF \o Utf8(Head(args)) \o CRLF
         \o sendCommandArgs(Tail(args))

sendCommand(args) == <<"*">> \o Decimal(Len(args)) \o CRLF \o sendCommandArgs(args)

\* The website's encodeCommand: Buffer.concat of the header and, per part, the
\* length line, the chunk and CRLF.
encodeCommand(parts) ==
  Flatten(<<<<"*">> \o Decimal(Len(parts)) \o CRLF>>
            \o [i \in 1..Len(parts) |->
                  <<"$">> \o Decimal(ByteLength(parts[i])) \o CRLF \o Utf8(parts[i]) \o CRLF])

Ascii(bytes) == [i \in 1..Len(bytes) |-> <<bytes[i]>>]

ArgTexts ==
  {<<>>, Ascii(<<"S", "E", "T">>), Ascii(<<"k">>), Ascii(<<"v">>),
   <<<<"c3", "a9">>, <<"1">>>>, Ascii(<<CR, LF, "$">>),
   Ascii(<<"r", "o", "o", "m", ":", "1", "0", "0", ":", "c", "f", "g">>)}

ArgLists == UNION {[1..n -> ArgTexts] : n \in 1..3}

RespEncode ==
  \E args \in ArgLists :
    /\ obs' = [obs EXCEPT !.resp =
                 [NoResp EXCEPT !.fn = "encode", !.args = args, !.sent = sendCommand(args),
                                !.website = encodeCommand(args)]]
    /\ UNCHANGED <<redis, rx, tx, web, net>>

InitResp ==
  /\ Init
  /\ tx.build = "part_003"
  /\ tx.overrideBrightness = 0

\* lastError_ = lineBuffer_: empty when the error line is.
ErrText(line) == IF line = <<>> THEN "" ELSE "server error"

\* readSimpleStatus, readInteger and readArrayLen: the expected type tag succeeds,
\* '-' copies the line into lastError_, anything else just fails.  sendCommand
\* has emptied lastError_ before.
readTagged(bytes, tag) ==
  TheOne({
    IF ~t.ok THEN [ok |-> FALSE, len |-> 0, err |-> t.err, rest |-> t.rest]
    ELSE IF t.type = tag
    THEN [ok |-> TRUE, len |-> toInt(t.line), err |-> "", rest |-> t.rest]
    ELSE IF t.type = "-"
    THEN [ok |-> FALSE, len |-> 0, err |-> ErrText(t.line), rest |-> t.rest]
    ELSE [ok |-> FALSE, len |-> 0, err |-> "", rest |-> t.rest] :
    t \in {readType(bytes)}})

ReaderTag == [status |-> "+", integer |-> ":", array |-> "*"]

\* What arrives before the read timeout: nothing, or one reply line.
LineReplies ==
  {<<>>, <<"+", "O", "K">> \o CRLF, <<":", "1">> \o CRLF, <<"*", "-", "1">> \o CRLF,
   <<"*", "1">> \o CRLF, NullReply, <<"-">> \o CRLF} \cup ErrorReplies

\* A command whose reply is a status, an integer or an array header, once sent.
RespRead ==
  \E reply \in LineReplies, reader \in DOMAIN ReaderTag :
    \E r \in {readTagged(reply, ReaderTag[reader])} :
        /\ obs' = [obs EXCEPT !.resp =
                     [NoResp EXCEPT !.fn = reader, !.reply = reply, !.ok = r.ok,
                                    !.err = r.err, !.rest = r.rest]]
        /\ UNCHANGED <<redis, rx, tx, web, net>>

readArrayLen(bytes) == readTagged(bytes, "*")

\* lastError_ keeps what an earlier read left unless a later one sets it again.
KeepErr(old, new) == IF new # "" THEN new ELSE old

XFound(id, payload, err, rest) ==
  [kind |-> "found", id |-> id, payload |-> payload, err |-> err, rest |-> rest]

XFail(err, rest) == [kind |-> "fail", id |-> <<>>, payload |-> <<>>, err |-> err, rest |-> rest]

XNext(err, rest) == [kind |-> "next", id |-> <<>>, payload |-> <<>>, err |-> err, rest |-> rest]

\* readXreadPayload's loop over an entry's fields: returns at the first named p.
\* (Here and below each read is bound over a singleton set, so that the steps
\* after it refer to what it returned.)
RECURSIVE readFields(_, _, _, _)
readFields(bytes, left, entryId, err) ==
  IF left <= 0 THEN XNext(err, bytes)
  ELSE TheOne({
         IF ~fieldName.ok THEN XFail(KeepErr(err, fieldName.err), fieldName.rest)
         ELSE TheOne({
                IF ~fieldValue.ok
                THEN XFail(KeepErr(err, fieldValue.err), fieldValue.rest)
                ELSE IF fieldName.out = <<"p">>
                THEN XFound(entryId, fieldValue.out, err, fieldValue.rest)
                ELSE readFields(fieldValue.rest, left - 2, entryId, err) :
                fieldValue \in {readBulkString(fieldName.rest, FALSE)}}) :
         fieldName \in {readBulkString(bytes, FALSE)}})

\* The fields of one entry, then the entries after it.
RECURSIVE readEntries(_, _, _)
EntryFields(fieldCount, left, entryId, err) ==
  IF ~fieldCount.ok \/ fieldCount.len <= 0
  THEN readEntries(fieldCount.rest, left - 1, KeepErr(err, fieldCount.err))
  ELSE TheOne({
         IF f.kind = "next" THEN readEntries(f.rest, left - 1, f.err) ELSE f :
         f \in {readFields(fieldCount.rest, fieldCount.len, entryId,
                           KeepErr(err, fieldCount.err))}})

\* ... over a stream's entries ...
readEntries(bytes, left, err) ==
  IF left <= 0 THEN XNext(err, bytes)
  ELSE TheOne({
         IF ~entryLen.ok \/ entryLen.len < 2
         THEN XFail(KeepErr(err, entryLen.err), entryLen.rest)
         ELSE TheOne({
                IF ~entryId.ok THEN XFail(KeepErr(err, entryId.err), entryId.rest)
                ELSE TheOne({EntryFields(fieldCount, left, entryId.out, err) :
                             fieldCount \in {readArrayLen(entryId.rest)}}) :
                entryId \in {readBulkString(entryLen.rest, FALSE)}}) :
         entryLen \in {readArrayLen(bytes)}})

\* The entries of one stream, then the streams after it.
RECURSIVE readStreams(_, _, _)
StreamEntries(entryCount, left, err) ==
  IF ~entryCount.ok \/ entryCount.len <= 0
  THEN readStreams(entryCount.rest, left - 1, KeepErr(err, entryCount.err))
  ELSE TheOne({
         IF f.kind = "next" THEN readStreams(f.rest, left - 1, f.err) ELSE f :
         f \in {readEntries(entryCount.rest, entryCount.len,
                            KeepErr(err, entryCount.err))}})

\* ... and over the streams of the reply.
readStreams(bytes, left, err) ==
  IF left <= 0 THEN XNext(err, bytes)
  ELSE TheOne({
         IF ~pairLen.ok \/ pairLen.len < 2
         THEN XFail(KeepErr(err, pairLen.err), pairLen.rest)
         ELSE TheOne({
                IF ~streamName.ok
                THEN XFail(KeepErr(err, streamName.err), streamName.rest)
                ELSE TheOne({StreamEntries(entryCount, left, err) :
                             entryCount \in {readArrayLen(streamName.rest)}}) :
                streamName \in {readBulkString(pairLen.rest, FALSE)}}) :
         pairLen \in {readArrayLen(bytes)}})

XreadResult(f) ==
  [ok |-> f.kind = "found", id |-> f.id, payload |-> f.payload, err |-> f.err,
   rest |-> f.rest]

\* RedisLink::readXreadPayload, and with it xreadLatest once the command is sent:
\* true with the entry id and the payload of field p, or false.
readXreadPayload(bytes) ==
  TheOne({
    TheOne({XreadResult(f) :
            f \in {IF ~topCount.ok THEN XFail(topCount.err, topCount.rest)
                   ELSE IF topCount.len <= 0 THEN XFail("", topCount.rest)
                   ELSE readStreams(topCount.rest, topCount.len, "")}}) :
    topCount \in {readArrayLen(bytes)}})

\* RedisLink::xreadLatest: sendCommand fails on a connection that is closed.
xreadLatest(bytes, up) ==
  IF ~up THEN [ok |-> FALSE, id |-> <<>>, payload |-> <<>>, err |-> "redis disconnected",
               rest |-> bytes]
  ELSE readXreadPayload(bytes)

\* A pumpStream that treats every false from xreadLatest as a failure.
pumpStreamAlwaysDrop(s, err) == dropRedis(s)

\* pumpStream after xreadLatest returned false: dropRedis when lastError is set,
\* else nothing but the end of the loop() pass.
pumpStreamNoEntry(s, err) == IF err # "" THEN dropRedis(s) ELSE [s EXCEPT !.pc = "ensure"]

\* The server's replies to XREAD BLOCK 1000 COUNT 1 STREAMS cmd:room:<id> <cursor>.
ArrayHeader(n) == <<"*">> \o Decimal(n) \o CRLF

NullArray == <<"*", "-", "1">> \o CRLF

StreamKey == <<"c", "m", "d">>

EntryReply(id, fields) ==
  ArrayHeader(1) \o ArrayHeader(2) \o BulkReply(StreamKey) \o ArrayHeader(1)
    \o ArrayHeader(2) \o BulkReply(id) \o ArrayHeader(Len(fields))
    \o Flatten([i \in 1..Len(fields) |-> BulkReply(fields[i])])

SomeId == <<"7", "-", "0">>

SomePayload == <<"{", "}">>

WholeReplies ==
  {NullArray,
   EntryReply(SomeId, <<<<"p">>, SomePayload>>),
   EntryReply(SomeId, <<<<"q">>, <<"x">>>>),
   EntryReply(SomeId, <<<<"q">>, <<"x">>, <<"p">>, SomePayload>>),
   EntryReply(SomeId, <<<<"p">>, SomePayload, <<"q">>, <<"x">>>>),
   <<":", "1">> \o CRLF} \cup ErrorReplies

\* What has arrived when the read timeout ends: a whole reply, or its first bytes.
Truncations(reply) == {SubSeq(reply, 1, n) : n \in {0, 4, Len(reply) - 3}}

XreadReplies == WholeReplies \cup UNION {Truncations(r) : r \in WholeReplies}

\* The Actuator in pumpStream, past its early returns, when the XREAD goes out.
PumpingRx ==
  {[InitRx EXCEPT !.pc = "xread", !.conn = TRUE, !.roomId = PROVISIONING_BASE_ID,
                  !.lastDesired = d, !.hasDesired = TRUE, !.lastAppliedVer = d.ver,
                  !.lastStreamId = c, !.streamCursorValid = TRUE, !.duty = applyPwm(d),
                  !.jsonScratch = encodeDesired(d, PROVISIONING_BASE_ID)] :
     d \in {DefaultDesired, Desired("on", 40, 2)}, c \in {ZeroId, 1}}

\* pumpStream from its XREAD on, up to the call of handlePayload.
RespXread ==
  \E reply \in XreadReplies, up \in BOOLEAN, s \in PumpingRx :
    \E r \in {xreadLatest(IF up THEN reply ELSE <<>>, up)} :
        /\ obs' = [obs EXCEPT !.resp =
                     [NoResp EXCEPT !.fn = "xread", !.up = up, !.ok = r.ok,
                                    !.reply = IF up THEN reply ELSE <<>>,
                                    !.id = r.id, !.out = r.payload, !.err = r.err,
                                    !.rest = r.rest, !.rxBefore = {s},
                                    !.rxAfter = IF r.ok THEN {}
                                                ELSE {pumpStreamNoEntry(s, r.err)}]]
        /\ UNCHANGED <<redis, rx, tx, web, net>>

NextResp ==
  \/ RespGet
  \/ RespEncode
  \/ RespRead
  \/ RespXread

SpecResp == InitResp /\ [][NextResp]_vars

GotReply(r, t) == obs.resp.fn = "get" /\ obs.resp.reply = r \o t

\* C21: get reports $-1 as success with the null flag set and an empty value, a
\* bulk reply of declared length n as success with exactly its n bytes and the
\* null flag clear, and an error reply as failure; it consumes exactly the reply.
C21_GetReportsNullValueError ==
  \A t \in Trailers :
    /\ GotReply(NullReply, t) =>
         obs.resp.ok /\ obs.resp.isNull /\ obs.resp.out = <<>> /\ obs.resp.rest = t
    /\ \A v \in BulkValues :
         GotReply(BulkReply(v), t) =>
           obs.resp.ok /\ ~obs.resp.isNull /\ obs.resp.out = v /\ obs.resp.rest = t
    /\ \A e \in ErrorReplies : GotReply(e, t) => ~obs.resp.ok

\* $0 was read onto a flag that said null: success, empty value, flag cleared.
C21_Witness ==
  /\ GotReply(BulkReply(<<>>), <<>>)
  /\ obs.resp.wasNull
  /\ obs.resp.ok
  /\ ~obs.resp.isNull
  /\ obs.resp.out = <<>>

\* The wire form the protocol prescribes for one argument and for a list.
WireArg(text) == <<"$">> \o Decimal(Len(Flatten(text))) \o <<CR, LF>> \o Flatten(text) \o <<CR, LF>>

WireCommand(args) ==
  <<"*">> \o Decimal(Len(args)) \o <<CR, LF>> \o Flatten([i \in 1..Len(args) |-> WireArg(args[i])])

SetKV == <<Ascii(<<"S", "E", "T">>), Ascii(<<"k">>), Ascii(<<"v">>)>>

\* C22: for N arguments the encoder writes *N CRLF and then, per argument in order,
\* $<len> CRLF <bytes> CRLF with nothing escaped or added; SET k v gives
\* *3 $3 SET $1 k $1 v; the firmware and the website write the same bytes.
C22_EncoderWire ==
  obs.resp.fn = "encode" =>
    /\ obs.resp.sent = WireCommand(obs.resp.args)
    /\ obs.resp.website = obs.resp.sent
    /\ obs.resp.args = SetKV =>
         obs.resp.sent = <<"*", "3", CR, LF, "$", "3", CR, LF, "S", "E", "T", CR, LF,
                           "$", "1", CR, LF, "k", CR, LF, "$", "1", CR, LF, "v", CR, LF>>

\* A command with a two-byte character, a twelve-byte key and an argument that
\* holds CR, LF and $ was encoded.
C22_Witness ==
  /\ obs.resp.fn = "encode"
  /\ Len(obs.resp.args) = 3
  /\ \E i \in 1..3 : ByteLength(obs.resp.args[i]) > CharCount(obs.resp.args[i])
  /\ \E i \in 1..3 : ByteLength(obs.resp.args[i]) > 9
  /\ \E i \in 1..3 : \E j \in 1..Len(obs.resp.args[i]) : obs.resp.args[i][j] = <<CR>>
  /\ obs.resp.website = obs.resp.sent

(***************************************************************************)
(* Both devices with transport faults and failing connection attempts;     *)
(* nobody else writes and nobody touches the Publisher's button, so it has *)
(* no override document to write.  Both loop() functions run forever.      *)
(***************************************************************************)
NextRecover ==
  \/ RxEnsure
  \/ RxProvision
  \/ RxPull
  \/ RxRecordSnapshot
  \/ RxHeartbeat
  \/ RxPrime
  \/ RxXread
  \/ RxRecordCommand
  \/ RxLinkDown
  \/ TxLoop
  \/ TxCfg
  \/ TxOverrideGet
  \/ TxPass
  \/ TxSeedDesired
  \/ TxSeedReported
  \/ TxSet
  \/ TxXadd
  \/ TxLinkDown

SpecRecover == Init /\ [][NextRecover]_vars /\ WF_vars(RxStep) /\ WF_vars(TxStep)

\* A step in which Wi-Fi or the store lets a device down: a transport fault, or a
\* connection attempt that does not end connected.
Unreachable ==
  \/ net' # net
  \/ RxEnsure /\ ~rx.conn /\ ~rx'.conn
  \/ TxLoop /\ ~tx.conn /\ ~tx'.conn

\* A step in which the Publisher finds nothing it could publish: room:<id>:cfg
\* holds a document that is no schedule, or a pass with a schedule or override at
\* hand returns for want of local time or because the publish interval is running.
NothingToPublish ==
  \/ TxCfg /\ tx.conn /\ tx.roomId # NoRoom /\ ~tx.scheduleLoaded
       /\ tx'.conn /\ ~tx'.scheduleLoaded
  \/ TxPass /\ tx.conn /\ tx.roomId # NoRoom /\ (tx.scheduleLoaded \/ tx.overrideEnabled)
       /\ tx'.pc = "loop"

RxSteady == rx.conn /\ rx.roomId # NoRoom /\ rx.hasDesired /\ rx.streamCursorValid

\* The model's Publisher has reached the bounds at which it starts no new pass.
WritersAtBound ==
  tx.pc = "pass" /\ tx.roomId # NoRoom /\ ~(CanWrite(tx.roomId) /\ tx.localVer < MaxVer)

TxSeeded == tx.conn /\ tx.roomId # NoRoom /\ ~tx.needsVersionSeed

C24_OverrideVerIncreases ==
  [][\A r \in Rooms :
       redis'.override[r] # redis.override[r] =>
         OverrideVer(redis', r) > OverrideVer(redis, r)]_vars

(***************************************************************************)
(* The website's quiet-hours form.  A schedule document holds, per member   *)
(* the handler touches, the set with its value ({} when missing); times    *)
(* are minutes since midnight.                                             *)
(***************************************************************************)
Schedule(ne, nt, nb, we, wt, v) ==
  [ok |-> TRUE, nightEnabled |-> ne, nightTime |-> nt, nightBrightness |-> nb,
   wakeEnabled |-> we, wakeTime |-> wt, version |-> v]

GarbageCfg == [Schedule({}, {}, {}, {}, {}, {}) EXCEPT !.ok = FALSE]

\* DEFAULT_SCHEDULE: wake 07:00 enabled, night 22:00 enabled at brightness 5, version 0.
DEFAULT_SCHEDULE == Schedule({TRUE}, {22 * 60}, {5}, {TRUE}, {7 * 60}, {0})

OrDefault(member, default) == IF member = {} THEN default ELSE member

\* readSchedulePayload and ensureScheduleShape: defaults under whatever was stored.
readSchedulePayload(stored) ==
  IF stored = {} THEN DEFAULT_SCHEDULE
  ELSE IF ~TheOne(stored).ok THEN DEFAULT_SCHEDULE
  ELSE LET c == TheOne(stored)
       IN  Schedule(OrDefault(c.nightEnabled, DEFAULT_SCHEDULE.nightEnabled),
                    OrDefault(c.nightTime, DEFAULT_SCHEDULE.nightTime),
                    OrDefault(c.nightBrightness, DEFAULT_SCHEDULE.nightBrightness),
                    OrDefault(c.wakeEnabled, DEFAULT_SCHEDULE.wakeEnabled),
                    OrDefault(c.wakeTime, DEFAULT_SCHEDULE.wakeTime),
                    OrDefault(c.version, DEFAULT_SCHEDULE.version))

\* The handler's assignments between loadSchedule and saveSchedule.
QuietHoursEdit(schedule, sleep, wake) ==
  [schedule EXCEPT !.nightEnabled = {TRUE}, !.nightTime = {sleep},
                   !.wakeEnabled = {TRUE}, !.wakeTime = {wake},
                   !.version = {TheOne(@) + 1}]

\* parseTimeInput: a time of day, or null for anything else.
InvalidTime == -1

FormTimes == {InvalidTime, 21 * 60 + 30, 6 * 60}

StoredCfgs ==
  {GarbageCfg, Schedule({}, {}, {}, {}, {}, {}),
   Schedule({FALSE}, {23 * 60}, {30}, {FALSE}, {8 * 60}, {1}),
   Schedule({TRUE}, {22 * 60}, {0}, {TRUE}, {7 * 60}, {1})}

\* Another client, or an earlier session, leaves a document in room:<id>:cfg.
ClientSetCfg ==
  \E r \in Rooms, doc \in StoredCfgs :
    /\ redis' = [redis EXCEPT !.cfg[r] = {doc}]
    /\ UNCHANGED <<rx, tx, web, net, obs>>

\* POST /room/{id}/quiet-hours up to saveSchedule: 400 on a bad time, else
\* loadSchedule and the edits.
WebQuietGet ==
  /\ web.pc = "idle"
  /\ web.reqs < MaxWebReqs
  /\ \E r \in Rooms, sleep \in FormTimes, wake \in FormTimes :
       IF sleep = InvalidTime \/ wake = InvalidTime
       THEN web' = [web EXCEPT !.pc = "bad_request", !.reqs = @ + 1]
       ELSE web' = [web EXCEPT !.pc = "quiet_set", !.room = r, !.reqs = @ + 1,
                               !.next = QuietHoursEdit(readSchedulePayload(redis.cfg[r]),
                                                       sleep, wake)]
  /\ UNCHANGED <<redis, rx, tx, net, obs>>

\* saveSchedule and the 303 redirect.
WebQuietSet ==
  /\ web.pc = "quiet_set"
  /\ redis' = [redis EXCEPT !.cfg[web.room] = {web.next}]
  /\ web' = [web EXCEPT !.pc = "idle", !.room = NoRoom, !.next = DefaultOffDoc]
  /\ UNCHANGED <<rx, tx, net, obs>>

\* The 400 response.
WebQuietReject ==
  /\ web.pc = "bad_request"
  /\ web' = [web EXCEPT !.pc = "idle"]
  /\ UNCHANGED <<redis, rx, tx, net, obs>>

InitQuiet ==
  /\ Init
  /\ tx.build = "part_003"
  /\ tx.overrideBrightness = 0

NextQuiet ==
  \/ ClientSetCfg
  \/ WebQuietGet
  \/ WebQuietSet
  \/ WebQuietReject

SpecQuiet == InitQuiet /\ [][NextQuiet]_vars

\* C25: a quiet-hours POST that succeeds leaves in room:<id>:cfg a schedule with
\* night.enabled and wake.enabled true and night.brightness 0, whatever was stored.
C25_QuietHoursForcesNightOff ==
  [][WebQuietSet =>
       \A doc \in redis'.cfg[web.room] :
         /\ doc.nightEnabled = {TRUE}
         /\ doc.wakeEnabled = {TRUE}
         /\ doc.nightBrightness = {0}]_vars

(***************************************************************************)
(* Delivery of stream entries to the Actuator.                             *)
(***************************************************************************)
\* A step of pumpStream in which xreadLatest handed over an entry.
Delivers == RxXread /\ obs'.delivered # NoId

\* ... and handlePayload returned before applyPwm.
Drops == Delivers /\ rx'.pc # "record_cmd"

\* The Actuator's variables other than the cursor, loop()'s position and the
\* bytes waiting in the connection.
Engine(s) ==
  [s EXCEPT !.lastStreamId = NoId, !.pc = "", !.unread = FALSE, !.sentCursor = NoId]

\* C26: when a delivered entry is dropped (its payload does not decode, or its
\* ver is not above lastAppliedVer), only the cursor changes: the PWM duty,
\* lastDesired, lastAppliedVer, every Redis key and stream (the reported key and
\* the state stream among them) stay as they were and the connection stays up.
C26_DropChangesCursorOnly ==
  [][Drops =>
       /\ Engine(rx') = Engine(rx)
       /\ rx'.conn
       /\ redis' = redis]_vars

C26_Witness ==
  /\ rx.conn
  /\ rx.pc = "ensure"
  /\ obs.delivered # NoId
  /\ rx.lastStreamId = obs.delivered
  /\ \E i \in 1..Len(redis.cmd[rx.roomId]) :
       LET e   == redis.cmd[rx.roomId][i]
           dec == decodeDesired(e.v, rx.lastDesired)
       IN  /\ e.id = obs.delivered
           /\ dec.ok
           /\ dec.d.ver >= 1
           /\ dec.d.ver <= rx.lastAppliedVer
           /\ dec.d.brightness # rx.lastDesired.brightness

\* C27: an entry handed over by a stream read becomes the cursor whether or not
\* it is applied; within one connection its id is above every id handed over
\* before (none is delivered twice), and the cursor never moves backwards.
C27_CursorFollowsDelivery ==
  [][/\ Delivers => /\ rx'.lastStreamId = obs'.delivered
                    /\ obs'.delivered > obs.epochDelivered
     /\ (rx.conn /\ rx'.conn /\ rx.streamCursorValid /\ rx'.streamCursorValid)
          => XreadCursor(rx') >= XreadCursor(rx)]_vars

(***************************************************************************)
(* The Actuator's sync sequence on a new connection.                       *)
(***************************************************************************)
\* Another client deletes room:<id>:desired.
ClientDelDesired ==
  \E r \in Rooms :
    /\ redis.desired[r] # {}
    /\ redis' = [redis EXCEPT !.desired[r] = {}]
    /\ UNCHANGED <<rx, tx, web, net, obs>>

NextSync ==
  \/ RxEnsure
  \/ RxProvision
  \/ RxPull
  \/ RxRecordSnapshot
  \/ RxHeartbeat
  \/ RxPrime
  \/ RxXread
  \/ RxRecordCommand
  \/ RxLinkDown
  \/ ClientSetDesired
  \/ ClientDelDesired
  \/ ClientXadd

SpecSync == InitRxAlone /\ [][NextSync]_vars

\* Steps of loop() that went through: pullSnapshot's GET and apply, its
\* recordState, primeStreamCursor, and an XREAD that is sent.
PullDone == RxPull /\ rx'.pc = "record_snap"

RecordDone == RxRecordSnapshot /\ rx'.pc = "heartbeat"

PrimeDone == RxPrime /\ rx'.pc = "xread"

XreadSent == RxXread /\ rx.conn

\* What recordState leaves in room:<id>:reported and state:room:<id>.
Mirrored(store, s) ==
  /\ store.reported[s.roomId] = {encodeDesired(s.lastDesired, s.roomId)}
  /\ store.state[s.roomId] = {encodeDesired(s.lastDesired, s.roomId)}

\* C28: on every connection the snapshot GET comes after provisioning and
\* applies what it read ({off,0,0} for an absent key), recordState then writes
\* the reported key and the state stream, the cursor is then primed to the
\* command stream's tail (0-0 for an empty stream), and an XREAD is sent only
\* after all of these went through on that connection.
C28_SyncOrder ==
  [][/\ PullDone =>
          /\ rx.roomId # NoRoom
          /\ redis.roomDevice[rx.roomId] # {}
          /\ redis.desired[rx.roomId] = {} => rx'.lastDesired = DefaultDesired
          /\ rx'.duty = applyPwm(rx'.lastDesired)
          /\ obs'.snapFresh
     /\ RecordDone =>
          /\ obs.snapFresh
          /\ Mirrored(redis', rx)
          /\ ~rx'.streamCursorValid
     /\ PrimeDone =>
          /\ obs.snapFresh
          /\ Mirrored(redis, rx)
          /\ ~obs.cursorFresh
          /\ rx'.lastStreamId = IF redis.cmd[rx.roomId] = <<>> THEN ZeroId
                                ELSE streamTailId(redis.cmd[rx.roomId])
     /\ XreadSent =>
          /\ obs.snapFresh
          /\ obs.cursorFresh
          /\ rx.roomId # NoRoom
          /\ rx.hasDesired
          /\ rx.streamCursorValid]_vars

C28_Witness ==
  /\ rx.conn
  /\ rx.pc = "xread"
  /\ net.faults >= 1
  /\ obs.everMax >= 1
  /\ redis.desired[rx.roomId] = {}
  /\ rx.lastDesired = DefaultDesired
  /\ obs.snapFresh
  /\ obs.cursorFresh
  /\ obs.epochDelivered = NoId
  /\ rx.lastStreamId = streamTailId(redis.cmd[rx.roomId])
  /\ rx.lastStreamId > ZeroId
  /\ Mirrored(redis, rx)

(***************************************************************************)
(* publishDesired, step by step.                                           *)
(***************************************************************************)
\* The teardown dropRedis leaves behind.
TornDown(s) == ~s.conn /\ s.localVer = 0 /\ s.needsVersionSeed

LastEntry(stream) == stream[Len(stream)]

\* C29: a publish carries localVer + 1 unless the candidate's ver is already
\* above localVer; it SETs room:<id>:desired, then XADDs the same payload to
\* cmd:room:<id> and trims it; localVer and lastDesired become the published
\* state only when SET and XADD both went through, and a failure of either
\* tears the connection down with localVer reset and lastDesired as it was.
C29_PublishSteps ==
  [][/\ (tx'.pc = "set" /\ tx.pc # "set") =>
          tx'.desired.ver = IF tx'.lastDesired.ver <= tx'.localVer
                            THEN tx'.localVer + 1 ELSE tx'.lastDesired.ver
     /\ TxSet =>
          /\ redis'.cmd = redis.cmd
          /\ tx'.lastDesired = tx.lastDesired
          /\ IF tx'.pc = "xadd"
             THEN /\ redis'.desired[tx.roomId] = {encodeDesired(tx.desired, tx.roomId)}
                  /\ obs'.pubVer = tx.desired.ver
                  /\ tx' = [tx EXCEPT !.pc = "xadd"]
             ELSE TornDown(tx')
     /\ TxXadd =>
          /\ redis'.desired = redis.desired
          /\ IF tx'.conn
             THEN /\ obs.pubVer = tx.desired.ver
                  /\ LastEntry(redis'.cmd[tx.roomId]).v = encodeDesired(tx.desired, tx.roomId)
                  /\ LastEntry(redis'.cmd[tx.roomId]).names = <<"p">>
                  /\ Len(redis'.cmd[tx.roomId]) <= kStreamTrimLen
                  /\ tx'.localVer = tx.desired.ver
                  /\ tx'.lastDesired = tx.desired
             ELSE /\ TornDown(tx')
                  /\ tx'.lastDesired = tx.lastDesired
     /\ (tx.pc \in {"set", "xadd"} /\ tx'.localVer > tx.localVer) => TxXadd /\ tx'.conn]_vars

C29_Witness ==
  /\ tx.conn
  /\ tx.pc = "loop"
  /\ net.faults >= 1
  /\ tx.localVer >= 2
  /\ tx.lastDesired.ver = tx.localVer
  /\ redis.desired[tx.roomId] = {encodeDesired(tx.lastDesired, tx.roomId)}
  /\ redis.cmd[tx.roomId] # <<>>
  /\ LastEntry(redis.cmd[tx.roomId]).v = encodeDesired(tx.lastDesired, tx.roomId)

(***************************************************************************)
(* Errors inside a RESP exchange.                                          *)
(***************************************************************************)
\* A step of the Actuator in which a reply did not arrive or the connection
\* closed under the command, and one in which the reply it reads is not its own.
TransportError == RxStep /\ net'.faults > net.faults

ProtocolError == RxStep /\ SendsNext(rx) /\ rx.unread

\* C30: a transport or protocol error in any command's exchange, XREAD and
\* XTRIM included, leaves the connection stopped and the derived state reset,
\* so that no further command goes out on that connection.
C30_ErrorTearsDown ==
  [][(TransportError \/ ProtocolError) => ~rx'.conn /\ Cleared(rx')]_vars

(***************************************************************************)
(* The last-error string.                                                  *)
(***************************************************************************)
Readers == {"get"} \cup DOMAIN ReaderTag

\* C31: whenever a RedisLink read returns failure (nothing arrived, an error
\* reply, a reply whose type tag is not the expected one, a short or unterminated
\* bulk string), lastError is non-empty when the caller looks at it.
C31_FailureLeavesLastError ==
  (obs.resp.fn \in Readers /\ ~obs.resp.ok) => obs.resp.err # ""

(***************************************************************************)
(* XREAD replies that deliver nothing.                                     *)
(***************************************************************************)
XreadGot(reply) == obs.resp.fn = "xread" /\ obs.resp.up /\ obs.resp.reply = reply

XreadTornDown ==
  /\ ~obs.resp.ok
  /\ obs.resp.err # ""
  /\ obs.resp.rxAfter = {dropRedis(TheOne(obs.resp.rxBefore))}
  /\ ~TheOne(obs.resp.rxAfter).conn
  /\ Cleared(TheOne(obs.resp.rxAfter))

Acknowledged ==
  \/ RxRecordSnapshot /\ rx'.pc = "heartbeat"
  \/ RxRecordCommand /\ rx'.conn /\ rx'.hasDesired

\* Between two handlers: not between an apply and its recordState.
AtLoopStep(s) == s.pc \notin {"record_snap", "record_cmd"}

\* C33: the state the Actuator applied is what recordState writes, one payload,
\* to room:<id>:reported and to state:room:<id>; and whenever the Actuator is
\* connected with a snapshot applied, room:<id>:reported holds the state whose
\* ver is lastAppliedVer (nobody else writes the key).
C33_AppliedIsReported ==
  [][/\ Acknowledged =>
          /\ rx.jsonScratch = encodeDesired(rx.lastDesired, rx.roomId)
          /\ redis'.reported[rx.roomId] = {rx.jsonScratch}
          /\ redis'.state[rx.roomId] = {rx.jsonScratch}
          /\ rx'.lastDesired = rx.lastDesired
     /\ (rx'.conn /\ rx'.hasDesired /\ AtLoopStep(rx')) =>
          /\ redis'.reported[rx'.roomId] = {encodeDesired(rx'.lastDesired, rx'.roomId)}
          /\ TheOne(redis'.reported[rx'.roomId]).ver = {rx'.lastAppliedVer}]_vars

C33_Witness ==
  /\ rx.conn
  /\ rx.hasDesired
  /\ rx.pc = "ensure"
  /\ obs.epochDelivered # NoId
  /\ rx.lastAppliedVer >= 2
  /\ rx.lastDesired.brightness > 0
  /\ Mirrored(redis, rx)
  /\ TheOne(redis.reported[rx.roomId]).ver = {rx.lastAppliedVer}
  /\ redis.desired[rx.roomId] # redis.reported[rx.roomId]

(***************************************************************************)
(* Override precedence in the publish pass.                                *)
(***************************************************************************)
\* A pass of maybePublishScheduledState reaches its candidate in this step.
PassDecides == obs.pass = "none" /\ obs'.pass # "none"

ModeFollows(d) == d.mode = "on" <=> d.brightness > 0

DocModeFollows(doc) ==
  /\ doc.ok
  /\ doc.mode \in {{"on"}, {"off"}}
  /\ doc.mode = {"on"} <=> TheOne(doc.brightness) > 0

\* C34: with override enabled the candidate's brightness is the knob value and
\* evaluateScheduleBrightness is not called; with override disabled it is what
\* evaluateScheduleBrightness returned; and every state the Publisher sends (SET
\* of room:<id>:desired, XADD to cmd:room:<id>) has mode on exactly when its
\* brightness is above 0.
C34_OverridePrecedence ==
  [][/\ PassDecides =>
          /\ tx'.overrideEnabled = tx.overrideEnabled
          /\ obs'.passOverride = tx.overrideEnabled
          /\ tx.overrideEnabled =>
                obs'.passBrightness = tx.overrideBrightness /\ obs'.passSched = -1
          /\ ~tx.overrideEnabled =>
                obs'.passBrightness = obs'.passSched /\ obs'.passSched \in Levels
          /\ obs'.pass = "publish" =>
                /\ tx'.pc = "set"
                /\ tx'.desired.brightness = obs'.passBrightness
                /\ ModeFollows(tx'.desired)
     /\ (TxSet /\ tx.conn) =>
          /\ redis'.desired[tx.roomId] = {encodeDesired(tx.desired, tx.roomId)}
          /\ DocModeFollows(TheOne(redis'.desired[tx.roomId]))
     /\ (TxXadd /\ redis'.cmd # redis.cmd) =>
          /\ LastEntry(redis'.cmd[tx.roomId]).names = <<"p">>
          /\ LastEntry(redis'.cmd[tx.roomId]).v = encodeDesired(tx.desired, tx.roomId)
          /\ DocModeFollows(LastEntry(redis'.cmd[tx.roomId]).v)]_vars

\* Override on, the knob at a level above 0 and the schedule's last published
\* state off: the publish carries the knob value.
C34_Witness ==
  /\ tx.pc = "xadd"
  /\ tx.conn
  /\ obs.pass = "publish"
  /\ obs.passOverride
  /\ tx.overrideEnabled
  /\ tx.scheduleLoaded
  /\ tx.overrideBrightness > 0
  /\ tx.lastDesired.brightness = 0
  /\ tx.desired.brightness = tx.overrideBrightness
  /\ tx.desired.mode = "on"
  /\ redis.desired[tx.roomId] = {encodeDesired(tx.desired, tx.roomId)}

(***************************************************************************)
(* The reconnect backoff against the clock.  struct Backoff and            *)
(* ensureRedis are the same text in the receiver and in both builds of the *)
(* sender; dropRedis schedules nothing in any of them.                     *)
(***************************************************************************)
\* The clock stops here, and loop() passes are this far apart.
MaxNow == 6000

Ticks == {50, 1000}

\* random(0, 200) is one of 0 .. 199.
JitterBound == 200

Jitters == {0, JitterBound - 1}

kSteps == <<250, 500, 1000, 2000>>

ready(b, now) == now >= b.nextMs

\* A schedule that keeps doubling past the last step.
scheduleUncapped(b, now, jitter) ==
  [b EXCEPT !.nextMs = now + 250 * (2 ^ b.slot) + jitter, !.slot = @ + 1]

schedule(b, now, jitter) ==
  LET idx == IF b.slot < kBackoffLastSlot THEN b.slot ELSE kBackoffLastSlot
  IN  [b EXCEPT !.nextMs = now + kSteps[idx + 1] + jitter,
                !.slot = IF @ < kBackoffLastSlot THEN @ + 1 ELSE @]

reset(b) == [b EXCEPT !.nextMs = 0, !.slot = 0]

ConnectOutcomes == {"tcp_failed", "auth_failed", "ping_failed", "connected"}

\* ensureRedis with redis.connected() false and WiFi up.
ensureRedis(b, outcome, jitter) ==
  IF ~ready(b, b.now) THEN [b EXCEPT !.did = "waiting"]
  ELSE IF outcome = "connected"
       THEN [reset(b) EXCEPT !.up = TRUE, !.fails = 0, !.failedAt = -1, !.droppedAt = -1,
                             !.did = outcome]
       ELSE [schedule(b, b.now, jitter) EXCEPT
               !.up = FALSE, !.fails = @ + 1, !.failedAt = b.now, !.droppedAt = -1,
               !.delay = schedule(b, b.now, jitter).nextMs - b.now, !.did = outcome]

\* millis() between two passes of loop().
BackoffTick ==
  /\ \E d \in Ticks :
       /\ obs.backoff.now + d <= MaxNow
       /\ obs' = [obs EXCEPT !.backoff.now = @ + d, !.backoff.did = "none"]
  /\ UNCHANGED <<redis, rx, tx, web, net>>

\* The call of ensureRedis in loop().
BackoffEnsure ==
  /\ \E outcome \in ConnectOutcomes, jitter \in Jitters :
       obs' = [obs EXCEPT !.backoff = IF @.up THEN [reset(@) EXCEPT !.did = "kept"]
                                      ELSE ensureRedis(@, outcome, jitter)]
  /\ UNCHANGED <<redis, rx, tx, web, net>>

\* The commands of a connected pass of loop(); each calls dropRedis when it fails.
SteadyCommands == {"XREAD", "SET", "XADD", "GET", "heartbeat"}

BackoffCommandFails ==
  /\ obs.backoff.up
  /\ \E cmd \in SteadyCommands :
       obs' = [obs EXCEPT !.backoff.up = FALSE, !.backoff.droppedAt = obs.backoff.now,
                          !.backoff.did = cmd]
  /\ UNCHANGED <<redis, rx, tx, web, net>>

NextBackoff == BackoffTick \/ BackoffEnsure \/ BackoffCommandFails

SpecBackoff == InitResp /\ [][NextBackoff]_vars

\* The step of the k-th failed attempt in a row, k counted from 0.
StepOf(k) == kSteps[(IF k < kBackoffLastSlot THEN k ELSE kBackoffLastSlot) + 1]

FailedAttempt == obs'.backoff.fails = obs.backoff.fails + 1

\* C35: failed connect, AUTH or PING attempts in a row are spaced by the steps
\* 250, 500, 1000, 2000 ms plus a jitter below 200 ms; the step index stays at
\* the last step from the fourth failure on; a successful connection puts the
\* sequence back to the first step.
C35_BackoffSteps ==
  [][/\ FailedAttempt =>
          /\ obs'.backoff.delay - StepOf(obs.backoff.fails) \in 0 .. (JitterBound - 1)
          /\ obs'.backoff.nextMs = obs.backoff.now + obs'.backoff.delay
          /\ obs.backoff.fails >= 1 =>
                obs.backoff.now - obs.backoff.failedAt >= StepOf(obs.backoff.fails - 1)
     /\ obs'.backoff.slot <= kBackoffLastSlot
     /\ obs'.backoff.slot = IF obs'.backoff.fails < kBackoffLastSlot
                            THEN obs'.backoff.fails ELSE kBackoffLastSlot
     /\ obs'.backoff.did = "connected" =>
          /\ obs'.backoff.slot = 0
          /\ obs'.backoff.nextMs = 0
          /\ obs'.backoff.fails = 0]_vars

\* The fifth failure in a row: the step is still 2000 ms.
C35_Witness ==
  /\ obs.backoff.fails = 5
  /\ obs.backoff.did \in ConnectOutcomes \ {"connected"}
  /\ obs.backoff.slot = kBackoffLastSlot
  /\ obs.backoff.delay \in 2000 .. 2199
  /\ obs.backoff.nextMs = obs.backoff.now + obs.backoff.delay

\* A connect attempt follows a dropRedis made outside ensureRedis.
ReconnectsAfterDrop == obs.backoff.droppedAt # -1 /\ obs'.backoff.droppedAt = -1

\* C36: after a failure in steady state (XREAD, SET, XADD, GET, heartbeat) the next
\* connect attempt is made only once a backoff delay has elapsed, never on the
\* pass of loop() that follows.
C36_ReconnectWaits ==
  [][ReconnectsAfterDrop => obs.backoff.now - obs.backoff.droppedAt >= StepOf(0)]_vars

(***************************************************************************)
(* A publish that stopped between its SET and its XADD.                    *)
(***************************************************************************)
\* cmd:room:<r> holds an entry whose version is at least v.
StreamReaches(r, v) ==
  \E i \in 1..Len(redis.cmd[r]) : VerOr(redis.cmd[r][i].v.ver, 0) >= v

\* publishDesired has just returned false from its XADD, after its SET of
\* room:<r>:desired went through: the snapshot is ahead of cmd:room:<r>.  (A SET
\* whose reply was lost leaves obs.pubVer set; with the one transport fault of
\* this specification nothing else leaves the snapshot ahead.)
HalfPublished(r) ==
  /\ tx.roomId = r
  /\ tx.pc = "loop"
  /\ ~tx.conn
  /\ obs.pass = "publish"
  /\ obs.pubVer = -1
  /\ SnapshotVer(redis.desired[r]) >= 1
  /\ ~StreamReaches(r, SnapshotVer(redis.desired[r]))

\* A pass of maybePublishScheduledState that returns before it has a candidate,
\* or a schedule fetch that finds no schedule.
PassNotDue ==
  \/ TxCfg /\ tx.conn /\ tx.roomId # NoRoom /\ ~tx.scheduleLoaded
       /\ tx'.conn /\ ~tx'.scheduleLoaded
  \/ TxPass /\ tx'.pc = "loop" /\ obs'.pass = "none"

\* C37: a publish whose SET went through and whose XADD did not leaves the
\* snapshot ahead of the command stream; once the Publisher is reconnected and
\* re-seeded (the store stays reachable, its passes are due) it appends an entry
\* whose version is at least the snapshot's.
C37_StreamCatchesUp ==
  <>[][~Unreachable /\ ~PassNotDue]_vars =>
    \A r \in Rooms :
      [](HalfPublished(r) =>
           <>(StreamReaches(r, SnapshotVer(redis.desired[r])) \/ WritersAtBound))

(***************************************************************************)
(* The Publisher alone, moved between rooms by ROOM:<id> console lines.    *)
(***************************************************************************)
TxRoomChange ==
  /\ tx.pc = "loop"
  /\ \E rid \in Rooms :
       /\ handleRoomAnnouncement(tx, rid) # tx
       /\ tx' = handleRoomAnnouncement(tx, rid)
  /\ UNCHANGED <<redis, rx, web, net, obs>>

NextRoom == TxStep \/ TxButton \/ TxRoomChange

SpecRoom == Init /\ [][NextRoom]_vars

\* What seedVersionFromRedis makes of the keys of room r: the version of
\* room:<r>:desired, in part_003 that of room:<r>:reported when the desired
\* snapshot does not load, 0 when nothing is there.
SeedOf(build, store, r) ==
  IF FallsBackToReported(build)
  THEN IF SnapshotLoads(store.desired[r]) THEN decodeSnapshot(TheOne(store.desired[r])).ver
       ELSE IF SnapshotLoads(store.reported[r])
            THEN decodeSnapshot(TheOne(store.reported[r])).ver
            ELSE DefaultDesired.ver
  ELSE SeededLegacy(tx, store.desired[r]).localVer

\* A pass decides on the first publish to the room the Publisher was moved to,
\* having published to another room before.
FirstPublishInNewRoom ==
  /\ tx.pc # "set"
  /\ tx'.pc = "set"
  /\ obs.pubMax[tx'.roomId] = -1
  /\ \E q \in Rooms \ {tx'.roomId} : obs.pubMax[q] >= 1

\* C38: after a room change the first state published to the new room carries
\* the version seeded from the new room's snapshot plus 1; no version of the
\* previous room reaches the new room's keys.
C38_VersionFromNewRoom ==
  [][FirstPublishInNewRoom =>
       /\ tx'.localVer = SeedOf(tx.build, redis, tx'.roomId)
       /\ tx'.desired.ver = tx'.localVer + 1]_vars

(***************************************************************************)
(* The Actuator's flags against each other.                                *)
(***************************************************************************)
\* C39: between two handlers of loop(), a valid stream cursor implies that a
\* snapshot was applied in this epoch (hasDesired), hasDesired implies a room
\* id, and hasDesired implies that lastAppliedVer is the version of lastDesired.
C39_ActuatorFlags ==
  AtLoopStep(rx) =>
    /\ rx.streamCursorValid => rx.hasDesired /\ rx.lastStreamId # NoId
    /\ rx.hasDesired => rx.roomId # NoRoom
    /\ rx.hasDesired => rx.lastAppliedVer = rx.lastDesired.ver

\* Steady state after a reconnect: cursor valid, a command of version 2 applied.
C39_Witness ==
  /\ AtLoopStep(rx)
  /\ rx.streamCursorValid
  /\ rx.hasDesired
  /\ rx.roomId # NoRoom
  /\ rx.lastAppliedVer = 2
  /\ rx.lastDesired.ver = 2
  /\ obs.failed = FALSE
  /\ net.faults >= 1

(***************************************************************************)
(* The version step of publishDesired at its declared width.  ver and      *)
(* localVer are uint32_t; a value is kept as its two 16-bit halves, so     *)
(* that localVer + 1 is computed modulo 2^32 as the device computes it.    *)
(* Below MaxVer this is the step Decided takes.                            *)
(***************************************************************************)
HalfRange == 65536

U32Max == U32(HalfRange - 1, HalfRange - 1)

U32Le(a, b) == a.hi < b.hi \/ (a.hi = b.hi /\ a.lo <= b.lo)

U32Lt(a, b) == U32Le(a, b) /\ a # b

\* a + 1 in uint32_t arithmetic.
U32Inc(a) ==
  IF a.lo + 1 < HalfRange THEN U32(a.hi, a.lo + 1)
  ELSE U32((a.hi + 1) % HalfRange, 0)

\* if (desired.ver <= localVer) desired.ver = localVer + 1;
publishVer(desiredVer, localVer) ==
  IF U32Le(desiredVer, localVer) THEN U32Inc(localVer) ELSE desiredVer

\* Versions at and next to the edges of both halves.
Edges == {0, 1, HalfRange - 2, HalfRange - 1}

U32Samples == {U32(hi, lo) : hi \in Edges, lo \in Edges}

VerPublish ==
  /\ \E d \in U32Samples, l \in U32Samples :
       obs' = [obs EXCEPT !.bump = [called |-> TRUE, desired |-> d, localVer |-> l,
                                    ver |-> publishVer(d, l)]]
  /\ UNCHANGED <<redis, rx, tx, web, net>>

NextVer == VerPublish

SpecVer == InitResp /\ [][NextVer]_vars

\* C40: the version a publish sends is strictly greater than localVer, for every
\* 32-bit localVer, 2^32 - 1 included: the arithmetic never wraps to a version
\* the Actuator drops as stale.
C40_VersionNeverWraps ==
  obs.bump.called => U32Lt(obs.bump.localVer, obs.bump.ver)

====
